---- MODULE Spec2Model ----
(***************************************************************************)
(* Symlink reconciliation engine of scripts/bootstrap (symlinks.py).        *)
(*                                                                          *)
(* The filesystem is a function from physical paths (sequences of name      *)
(* components below "/") to nodes: regular files with a content, real       *)
(* directories and symbolic links with an absolute destination.  pathlib    *)
(* and the system calls the engine uses (stat, lstat, realpath, rename,     *)
(* unlink, mkdir, symlink) are operators over that function; link_items is  *)
(* a sequential process with one action per step between two system calls. *)
(* The interpreter is CPython >= 3.14 (scripts/bootstrap.py, line 3), where *)
(* Path.resolve(strict=False) does not raise on a symlink loop.             *)
(***************************************************************************)
EXTENDS Integers, Sequences, FiniteSets, TLC

VARIABLES
    fs,          \* the filesystem: physical path -> node
    clock,       \* wall clock in seconds, as last read by datetime.now()
    items,       \* the batch handed to link_items: a sequence of registry keys
    mode,        \* ReplaceMode of the session: "safe", "backup" or "force"
    dry,         \* dry_run of the current run
    pc,          \* position of link_items
    idx,         \* index in items of the entry being processed
    had_errors,  \* link_items' local had_errors
    backup,      \* link_items' local backup (<<>> is None)
    out,         \* lines echoed by the current run
    exitcode,    \* exit status of the last finished run (-1: none yet)
    runs,        \* number of runs started
    fs0,         \* history: the filesystem when the current run started
    hist,        \* history: per entry classified in the current run, [key, st, pre]:
                 \* its status_of and the filesystem when it was classified
    prev,        \* history: the run before the current one, [dry, exit, direct]
    muts,        \* history: system calls of the current run that changed fs
    gate,        \* the last link command's confirmation: [dry, yes, asked, answer]
    last,        \* the last command and its exit status: [cmd, why, code]
    past,        \* history: the run before the current one when it was a dry run
                 \* or was killed, [fs, out, hist, exit]: the filesystem when it
                 \* started, its lines, the entries it classified, its exit status
    data,        \* the parsed JSON document handed to the validator
    schema,      \* the parsed schema handed to the validator
    report,      \* what the validator returned: [raised, errors]
    vpc,         \* position of the validator: "off", "ready" or "done"
    env          \* the (kind, target) pairs the machine has: commands on PATH,
                 \* directories and files

cliVars == <<gate, last>>
valVars == <<data, schema, report, vpc, env>>

vars == <<fs, clock, items, mode, dry, pc, idx, had_errors, backup, out,
          exitcode, runs, fs0, hist, prev, muts, gate, last, past, data, schema,
          report, vpc, env>>

----------------------------------------------------------------------------
(* Bounds *)

MaxRuns == 2
MaxClock == 2
MaxLinks == 4

----------------------------------------------------------------------------
(* Paths and nodes *)

None == <<>>

Home == <<"H">>
Root == <<"R">>
Other == <<"O">>

KeyD == <<"d">>
KeyDF == <<"d", "f">>
Registry == <<KeyD, KeyDF>>

Source(key) == Root \o key
Target(key) == Home \o key

File(c) == [k |-> "file", c |-> c, to |-> None]
Dir == [k |-> "dir", c |-> "", to |-> None]
Link(p) == [k |-> "link", c |-> "", to |-> p]

Parent(p) == SubSeq(p, 1, Len(p) - 1)
Name(p) == p[Len(p)]

Without(f, p) == [q \in (DOMAIN f) \ {p} |-> f[q]]
With(f, p, n) == [q \in (DOMAIN f) \cup {p} |-> IF q = p THEN n ELSE f[q]]

----------------------------------------------------------------------------
(* Path lookup of the kernel.  Walk resolves `rest` below the physical     *)
(* directory `cur`; `follow` tells whether a symbolic link in the last      *)
(* component is followed (stat) or returned (lstat); MaxLinks bounds the    *)
(* links one lookup traverses (ELOOP).  The result names the physical path  *)
(* reached; on ENOENT, `last` tells that only the final component is        *)
(* missing, so that the path can be created.                                *)

Found(p) == [err |-> "", phys |-> p, last |-> FALSE]
Failed(e, p, l) == [err |-> e, phys |-> p, last |-> l]

RECURSIVE Walk(_, _, _, _, _)
Walk(f, cur, rest, follow, fuel) ==
    IF rest = <<>> THEN Found(cur)
    ELSE LET p == Append(cur, Head(rest))
             tl == Tail(rest)
         IN IF p \notin DOMAIN f THEN Failed("ENOENT", p, tl = <<>>)
            ELSE IF f[p].k = "dir" THEN Walk(f, p, tl, follow, fuel)
            ELSE IF f[p].k = "file"
                 THEN IF tl = <<>> THEN Found(p) ELSE Failed("ENOTDIR", p, FALSE)
            ELSE IF tl = <<>> /\ ~follow THEN Found(p)
            ELSE IF fuel = 0 THEN Failed("ELOOP", p, FALSE)
            ELSE Walk(f, <<>>, f[p].to \o tl, follow, fuel - 1)

Stat(f, p) == Walk(f, <<>>, p, TRUE, MaxLinks)
Lstat(f, p) == Walk(f, <<>>, p, FALSE, MaxLinks)

(* pathlib: Path.exists, Path.is_symlink, Path.is_dir answer False on      *)
(* ENOENT, ENOTDIR and ELOOP.                                               *)
Exists(f, p) == Stat(f, p).err = ""
IsSymlink(f, p) == LET w == Lstat(f, p) IN w.err = "" /\ f[w.phys].k = "link"
IsDir(f, p) == LET w == Stat(f, p) IN w.err = "" /\ f[w.phys].k = "dir"

(* os.path.realpath(strict=False), which Path.resolve(strict=False) is:    *)
(* components are resolved left to right below the resolved prefix `path`;  *)
(* a component that cannot be lstat'ed is appended as it is; a link that is *)
(* being resolved already (`seen`) is a loop and is appended as it is.      *)
RECURSIVE JoinRealpath(_, _, _, _)
JoinRealpath(f, path, rest, seen) ==
    IF rest = <<>> THEN path
    ELSE LET newpath == Append(path, Head(rest))
             tl == Tail(rest)
         IN IF newpath \notin DOMAIN f \/ f[newpath].k # "link"
            THEN JoinRealpath(f, newpath, tl, seen)
            ELSE IF newpath \in seen
            THEN JoinRealpath(f, newpath, tl, seen)
            ELSE JoinRealpath(f,
                     JoinRealpath(f, <<>>, f[newpath].to, seen \cup {newpath}),
                     tl, seen)

Resolve(f, p) == JoinRealpath(f, <<>>, p, {})

----------------------------------------------------------------------------
(* System calls that change the filesystem.  Each returns [err, fs]; err   *)
(* is "" on success and the errno name otherwise, with fs unchanged.        *)

Ok(f) == [err |-> "", fs |-> f]
Errno(e, f) == [err |-> e, fs |-> f]

\* os.rename(src, dst) of a file or link: replaces a file or link at dst.
Rename(f, src, dst) ==
    LET ws == Lstat(f, src)
        wd == Lstat(f, dst)
    IN IF ws.err # "" THEN Errno(ws.err, f)
       ELSE IF wd.err = ""
            THEN IF f[wd.phys].k = "dir" THEN Errno("EISDIR", f)
                 ELSE IF wd.phys = ws.phys THEN Ok(f)
                 ELSE Ok(With(Without(f, ws.phys), wd.phys, f[ws.phys]))
       ELSE IF wd.err = "ENOENT" /\ wd.last
            THEN Ok(With(Without(f, ws.phys), wd.phys, f[ws.phys]))
       ELSE Errno(wd.err, f)

\* os.unlink(p)
Unlink(f, p) ==
    LET w == Lstat(f, p)
    IN IF w.err # "" THEN Errno(w.err, f)
       ELSE IF f[w.phys].k = "dir" THEN Errno("EPERM", f)
       ELSE Ok(Without(f, w.phys))

\* os.mkdir(p)
Mkdir(f, p) ==
    LET w == Lstat(f, p)
    IN IF w.err = "" THEN Errno("EEXIST", f)
       ELSE IF w.err = "ENOENT" /\ w.last THEN Ok(With(f, w.phys, Dir))
       ELSE Errno(w.err, f)

\* Path.mkdir(parents=True, exist_ok=True)
RECURSIVE MkdirParents(_, _)
MkdirParents(f, p) ==
    LET r == Mkdir(f, p)
    IN IF r.err = "" THEN r
       ELSE IF r.err = "ENOENT"
            THEN IF p = <<>> THEN r
                 ELSE LET up == MkdirParents(f, Parent(p))
                      IN IF up.err # "" THEN up
                         ELSE LET again == Mkdir(up.fs, p)
                              IN IF again.err = "" \/ IsDir(up.fs, p)
                                 THEN Ok(again.fs) ELSE again
       ELSE IF IsDir(f, p) THEN Ok(f) ELSE r

\* os.symlink(dest, p)
Symlink(f, dest, p) ==
    LET w == Lstat(f, p)
    IN IF w.err = "" THEN Errno("EEXIST", f)
       ELSE IF w.err = "ENOENT" /\ w.last THEN Ok(With(f, w.phys, Link(dest)))
       ELSE Errno(w.err, f)

----------------------------------------------------------------------------
(* symlinks.py: the pure functions *)

\* Mutant: the first test looks at the target instead of the source.
is_source_present_typo(f, key) ==
    Exists(f, Target(key)) \/ IsSymlink(f, Source(key))

is_source_present(f, key) ==
    Exists(f, Source(key)) \/ IsSymlink(f, Source(key))

\* Mutant: a dangling link is reported before the two paths are compared.
status_of_broken_first(f, key) ==
    IF ~is_source_present(f, key) THEN "missing-source"
    ELSE IF IsSymlink(f, Target(key))
         THEN IF ~Exists(f, Target(key)) THEN "broken-link"
              ELSE IF Resolve(f, Target(key)) = Resolve(f, Source(key)) THEN "linked"
              ELSE "linked-elsewhere"
    ELSE IF Exists(f, Target(key))
         THEN IF IsDir(f, Target(key)) THEN "target-dir" ELSE "exists"
    ELSE "absent"

status_of(f, key) ==
    IF ~is_source_present(f, key) THEN "missing-source"
    ELSE IF IsSymlink(f, Target(key))
         THEN IF Resolve(f, Target(key)) = Resolve(f, Source(key)) THEN "linked"
              ELSE IF ~Exists(f, Target(key)) THEN "broken-link"
              ELSE "linked-elsewhere"
    ELSE IF Exists(f, Target(key))
         THEN IF IsDir(f, Target(key)) THEN "target-dir" ELSE "exists"
    ELSE "absent"

\* datetime.now().strftime("%Y%m%d-%H%M%S") at second t of the modelled day
Stamp(t) == "20250101-00000" \o ToString(t)

\* Mutant: the stamp follows the name without the ".bak." infix.
backup_path_for_bare(target, t) ==
    Append(Parent(target), Name(target) \o "." \o Stamp(t))

backup_path_for(target, t) ==
    Append(Parent(target), Name(target) \o ".bak." \o Stamp(t))

(* remove_target(target, mode, dry_run) at second t.  The result tells     *)
(* what happened: "none" (nothing to remove, or safe), "exit2" (a real      *)
(* directory: typer.Exit(2)), "mv" / "rm" (done, or announced in a dry      *)
(* run), "oserror" (rename or unlink raised); ret is the returned path.     *)

\* Lines 151-159: the backup branch.
remove_backup(f, target, dry_run, t) ==
    LET b == backup_path_for(target, t)
    IN IF dry_run THEN [what |-> "mv", ret |-> b, fs |-> f]
       ELSE LET r == Rename(f, target, b)
            IN IF r.err # "" THEN [what |-> "oserror", ret |-> None, fs |-> f]
               ELSE [what |-> "mv", ret |-> b, fs |-> r.fs]

\* Lines 161-166: the force branch.
remove_force(f, target, dry_run) ==
    IF dry_run THEN [what |-> "rm", ret |-> None, fs |-> f]
    ELSE LET r == Unlink(f, target)
         IN IF r.err # "" THEN [what |-> "oserror", ret |-> None, fs |-> f]
            ELSE [what |-> "rm", ret |-> None, fs |-> r.fs]

\* Mutant: the policy is looked at before the directory guard.
remove_target_safe_first(f, target, m, dry_run, t) ==
    IF ~(Exists(f, target) \/ IsSymlink(f, target))
    THEN [what |-> "none", ret |-> None, fs |-> f]
    ELSE IF m = "safe"
    THEN [what |-> "none", ret |-> None, fs |-> f]
    ELSE IF Exists(f, target) /\ IsDir(f, target) /\ ~IsSymlink(f, target)
    THEN [what |-> "exit2", ret |-> None, fs |-> f]
    ELSE IF m = "backup" THEN remove_backup(f, target, dry_run, t)
    ELSE remove_force(f, target, dry_run)

remove_target(f, target, m, dry_run, t) ==
    IF ~(Exists(f, target) \/ IsSymlink(f, target))
    THEN [what |-> "none", ret |-> None, fs |-> f]
    ELSE IF Exists(f, target) /\ IsDir(f, target) /\ ~IsSymlink(f, target)
    THEN [what |-> "exit2", ret |-> None, fs |-> f]
    ELSE IF m = "safe"
    THEN [what |-> "none", ret |-> None, fs |-> f]
    ELSE IF m = "backup" THEN remove_backup(f, target, dry_run, t)
    ELSE remove_force(f, target, dry_run)

(* ensure_parent_dir(path, dry_run): "present" (parent exists), "mkdir"    *)
(* (created, or announced in a dry run), "oserror" (mkdir raised).          *)
ensure_parent_dir(f, path, dry_run) ==
    IF Exists(f, Parent(path)) THEN [what |-> "present", fs |-> f]
    ELSE IF dry_run THEN [what |-> "mkdir", fs |-> f]
    ELSE LET r == MkdirParents(f, Parent(path))
         IN IF r.err # "" THEN [what |-> "oserror", fs |-> f]
            ELSE [what |-> "mkdir", fs |-> r.fs]

\* Mutant: create_link does not look at dry_run.
symlink_to_eager(f, key, dry_run) ==
    LET r == Symlink(f, Source(key), Target(key))
    IN IF r.err # "" THEN [what |-> "oserror", fs |-> f]
       ELSE [what |-> "ln", fs |-> r.fs]

(* The last step of create_link: item.target.symlink_to(item.source), or   *)
(* its announcement in a dry run.                                           *)
symlink_to(f, key, dry_run) ==
    IF dry_run THEN [what |-> "ln", fs |-> f]
    ELSE LET r == Symlink(f, Source(key), Target(key))
         IN IF r.err # "" THEN [what |-> "oserror", fs |-> f]
            ELSE [what |-> "ln", fs |-> r.fs]

\* Mutant: safe is treated like the other policies.
decide_no_safe(f, key, s, m) ==
    IF s = "missing-source" THEN "error"
    ELSE IF s = "linked" THEN "skip-linked"
    ELSE IF s = "target-dir" THEN "error"
    ELSE IF Exists(f, Target(key)) \/ IsSymlink(f, Target(key)) THEN "remove"
    ELSE "create"

\* Mutant: the target-dir branch is missing.
decide_no_dir_guard(f, key, s, m) ==
    IF s = "missing-source" THEN "error"
    ELSE IF s = "linked" THEN "skip-linked"
    ELSE IF Exists(f, Target(key)) \/ IsSymlink(f, Target(key))
         THEN IF m = "safe" THEN "skip-exists" ELSE "remove"
    ELSE "create"

\* Mutant: force replaces a correct link too.
decide_force_relinks(f, key, s, m) ==
    IF s = "missing-source" THEN "error"
    ELSE IF s = "linked" /\ m # "force" THEN "skip-linked"
    ELSE IF s = "target-dir" THEN "error"
    ELSE IF Exists(f, Target(key)) \/ IsSymlink(f, Target(key))
         THEN IF m = "safe" THEN "skip-exists" ELSE "remove"
    ELSE "create"

(* The decision link_items takes for an entry of status s: "error",        *)
(* "skip-linked", "skip-exists", "remove" (call remove_target first) or     *)
(* "create" (go on to create_link).                                         *)
decide(f, key, s, m) ==
    IF s = "missing-source" THEN "error"
    ELSE IF s = "linked" THEN "skip-linked"
    ELSE IF s = "target-dir" THEN "error"
    ELSE IF Exists(f, Target(key)) \/ IsSymlink(f, Target(key))
         THEN IF m = "safe" THEN "skip-exists" ELSE "remove"
    ELSE "create"

\* Whether confirm_mode gets as far as typer.confirm.
Prompted(m, dry_run, yes) == ~(dry_run \/ yes \/ m = "safe")

\* Mutant: the prompt is shown and its answer is not looked at.
confirm_mode_any_answer(m, dry_run, yes, answer) == TRUE

\* confirm_mode(mode, dry_run, yes); answer is what typer.confirm returns.
confirm_mode(m, dry_run, yes, answer) ==
    IF dry_run \/ yes \/ m = "safe" THEN TRUE ELSE answer

Line(tag, key, what, path) == [tag |-> tag, key |-> key, what |-> what, path |-> path]

----------------------------------------------------------------------------
(* Initial states: a home directory H, the repository R and a directory O  *)
(* outside both, with every combination of the nodes below; a batch of      *)
(* distinct registry keys in any order; a policy.                           *)

Absent == [k |-> "none", c |-> "", to |-> None]

Piece(p, n) == IF n.k = "none" THEN <<>> ELSE (p :> n)

RepoChoices ==
    {<<Absent, Absent>>, <<Link(Other), Absent>>}
    \cup {<<Dir, n>> : n \in {Absent, File("src"), Link(Other \o <<"x">>)}}

HomeChoices ==
    {<<n, Absent>> : n \in {Absent, File("usr"), Link(Source(KeyD)), Link(Other),
                            Link(Other \o <<"x">>)}}
    \cup {<<Dir, n>> : n \in {Absent, File("usr2"), Dir, Link(Source(KeyDF)),
                              Link(Other \o <<"x">>)}}

OtherChoices ==
    {<<x, y>> : x \in {Absent, File("ox")}, y \in {Absent, File("of")}}

MkFs(r, h, o) ==
    (Home :> Dir) @@ (Root :> Dir) @@ (Other :> Dir)
    @@ Piece(Source(KeyD), r[1]) @@ Piece(Source(KeyDF), r[2])
    @@ Piece(Target(KeyD), h[1]) @@ Piece(Target(KeyDF), h[2])
    @@ Piece(Other \o <<"x">>, o[1]) @@ Piece(Other \o <<"f">>, o[2])

Batches == {<<KeyD>>, <<KeyDF>>, <<KeyD, KeyDF>>, <<KeyDF, KeyD>>}

Modes == {"safe", "backup", "force"}

NoPrev == [dry |-> TRUE, exit |-> -1, direct |-> FALSE]

NoPast == [fs |-> <<>>, out |-> <<>>, hist |-> <<>>, exit |-> -1]

NoGate == [dry |-> FALSE, yes |-> FALSE, asked |-> FALSE, answer |-> FALSE]
NoCommand == [cmd |-> "none", why |-> "", code |-> -1]

\* The validator is not part of a link session.
ValidatorOff ==
    /\ data = <<>>
    /\ schema = <<>>
    /\ report = <<>>
    /\ vpc = "off"
    /\ env = {}

Init ==
    /\ \E r \in RepoChoices, h \in HomeChoices, o \in OtherChoices :
           fs = MkFs(r, h, o)
    /\ clock = 1
    /\ items \in Batches
    /\ mode \in Modes
    /\ dry = FALSE
    /\ pc = "idle"
    /\ idx = 0
    /\ had_errors = FALSE
    /\ backup = None
    /\ out = <<>>
    /\ exitcode = -1
    /\ runs = 0
    /\ fs0 = fs
    /\ hist = <<>>
    /\ prev = NoPrev
    /\ muts = 0
    /\ gate = NoGate
    /\ last = NoCommand
    /\ past = NoPast
    /\ ValidatorOff

----------------------------------------------------------------------------
(* link_items(items, mode, dry_run) *)

Item == items[idx]

Count(before, after) == IF after = before THEN muts ELSE muts + 1

\* The loop header: the next entry, or the end of the loop.
Advance ==
    /\ idx' = idx + 1
    /\ pc' = IF idx + 1 > Len(items) THEN "end" ELSE "classify"

\* The exit status of a process killed by SIGKILL.
Killed == 137

\* Lines 184-185: the call, with had_errors = False.
LinkItemsBegin(d) ==
    /\ pc = "idle"
    /\ runs < MaxRuns
    /\ runs' = runs + 1
    /\ dry' = d
    /\ had_errors' = FALSE
    /\ backup' = None
    /\ out' = <<>>
    /\ idx' = 1
    /\ pc' = "classify"
    /\ fs0' = fs
    /\ hist' = <<>>
    /\ muts' = 0
    /\ past' = IF runs >= 1 /\ (dry \/ exitcode = Killed)
               THEN [fs |-> fs0, out |-> out, hist |-> hist, exit |-> exitcode]
               ELSE NoPast
    /\ UNCHANGED <<fs, clock, items, mode, exitcode, prev>>

(* cli.link: `targets` tells what the command line names: no target and no *)
(* --all ("none": typer.Exit(2)), a key the registry does not have          *)
(* ("unknown": resolve_items raises typer.BadParameter, status 2), or the   *)
(* batch ("given").  A declined confirmation ends the command with status   *)
(* 1; otherwise link_items is called.                                       *)
link(targets, d, y, a) ==
    /\ pc = "idle"
    /\ runs < MaxRuns
    /\ IF targets # "given"
       THEN /\ last' = [cmd |-> "link", why |-> "usage", code |-> 2]
            /\ UNCHANGED <<fs, clock, items, mode, dry, pc, idx, had_errors, backup,
                           out, exitcode, runs, fs0, hist, prev, muts, gate, past>>
       ELSE /\ gate' = [dry |-> d, yes |-> y, asked |-> Prompted(mode, d, y),
                        answer |-> Prompted(mode, d, y) /\ a]
            /\ IF ~confirm_mode(mode, d, y, a)
               THEN /\ last' = [cmd |-> "link", why |-> "declined", code |-> 1]
                    /\ UNCHANGED <<fs, clock, items, mode, dry, pc, idx, had_errors,
                                   backup, out, exitcode, runs, fs0, hist, prev, muts,
                                   past>>
               ELSE /\ last' = [cmd |-> "link", why |-> "ran", code |-> -1]
                    /\ LinkItemsBegin(d)
    /\ UNCHANGED valVars

(* run_wizard() of scripts/bootstrap.py: the user selects the entries (the  *)
(* batch, or nothing), the policy and whether the run is a dry run, and is  *)
(* asked "Proceed?" (an empty answer is yes); confirm_mode is not called.   *)
(* The function returns when nothing is selected or the plan is declined,   *)
(* and calls link_items otherwise.                                          *)
run_wizard(selected, d, proceed) ==
    /\ pc = "idle"
    /\ runs < MaxRuns
    /\ IF ~selected \/ ~proceed
       THEN /\ last' = [cmd |-> "wizard",
                        why |-> IF ~selected THEN "nothing" ELSE "aborted",
                        code |-> 0]
            /\ UNCHANGED <<fs, clock, items, mode, dry, pc, idx, had_errors, backup,
                           out, exitcode, runs, fs0, hist, prev, muts, gate, past>>
       ELSE /\ last' = [cmd |-> "wizard", why |-> "ran", code |-> -1]
            /\ gate' = [dry |-> d, yes |-> FALSE, asked |-> FALSE, answer |-> FALSE]
            /\ LinkItemsBegin(d)
    /\ UNCHANGED valVars

\* Lines 186-209: status_of and the branches that need no system call.
Classify ==
    /\ pc = "classify"
    /\ LET s == status_of(fs, Item)
           d == decide(fs, Item, s, mode)
       IN /\ hist' = Append(hist, [key |-> Item, st |-> s, pre |-> fs])
          /\ backup' = None
          /\ CASE d = "error" ->
                    /\ out' = Append(out, Line("ERROR", Item,
                                  IF s = "missing-source" THEN "source missing"
                                  ELSE "target is a directory", None))
                    /\ had_errors' = TRUE
                    /\ Advance
               [] d = "skip-linked" ->
                    /\ out' = Append(out, Line("SKIP", Item, "already linked", None))
                    /\ Advance
                    /\ UNCHANGED had_errors
               [] d = "skip-exists" ->
                    /\ out' = Append(out, Line("SKIP", Item, "target exists", None))
                    /\ Advance
                    /\ UNCHANGED had_errors
               [] d = "remove" ->
                    /\ pc' = "remove"
                    /\ UNCHANGED <<out, had_errors, idx>>
               [] d = "create" ->
                    /\ pc' = "mkdir"
                    /\ UNCHANGED <<out, had_errors, idx>>
    /\ UNCHANGED <<fs, clock, items, mode, dry, exitcode, runs, fs0, prev, muts>>
    /\ UNCHANGED <<cliVars, past, valVars>>

\* Lines 210-213: remove_target at the second t the clock shows, and BACKUP.
RemoveTarget(t) ==
    /\ pc = "remove"
    /\ t >= clock
    /\ clock' = IF mode = "backup" THEN t ELSE clock
    /\ mode # "backup" => t = clock
    /\ LET r == remove_target(fs, Target(Item), mode, dry, t)
       IN /\ fs' = r.fs
          /\ muts' = Count(fs, r.fs)
          /\ backup' = r.ret
          /\ pc' = IF r.what = "oserror" THEN "raised"
                   ELSE IF r.what = "exit2" THEN "exit2" ELSE "mkdir"
          /\ out' = IF r.what = "oserror" \/ r.what = "exit2" THEN out
                    ELSE IF dry
                    THEN IF r.what = "none" THEN out
                         ELSE Append(out, Line("DRYRUN", Item, r.what, r.ret))
                    ELSE IF r.ret # None
                    THEN Append(out, Line("BACKUP", Item, "", r.ret))
                    ELSE out
    /\ UNCHANGED <<items, mode, dry, idx, had_errors, exitcode, runs, fs0, hist, prev>>
    /\ UNCHANGED <<cliVars, past, valVars>>

\* Line 170: ensure_parent_dir(item.target).
EnsureParentDir ==
    /\ pc = "mkdir"
    /\ LET r == ensure_parent_dir(fs, Target(Item), dry)
       IN /\ fs' = r.fs
          /\ muts' = Count(fs, r.fs)
          /\ pc' = IF r.what = "oserror" THEN "raised" ELSE "symlink"
          /\ out' = IF dry /\ r.what = "mkdir"
                    THEN Append(out, Line("DRYRUN", Item, "mkdir", Parent(Target(Item))))
                    ELSE out
    /\ UNCHANGED <<clock, items, mode, dry, idx, had_errors, backup, exitcode, runs,
                   fs0, hist, prev>>
    /\ UNCHANGED <<cliVars, past, valVars>>

\* Lines 171-176 and 216-217: symlink_to and the DRYRUN / LINKED line.
CreateLink ==
    /\ pc = "symlink"
    /\ LET r == symlink_to(fs, Item, dry)
       IN /\ fs' = r.fs
          /\ muts' = Count(fs, r.fs)
          /\ IF r.what = "oserror"
             THEN /\ pc' = "raised"
                  /\ UNCHANGED <<out, idx>>
             ELSE /\ out' = IF dry
                            THEN out \o <<Line("DRYRUN", Item, "ln", Source(Item)),
                                          Line("DRYRUN", Item, "", None)>>
                            ELSE Append(out, Line("LINKED", Item, "", None))
                  /\ Advance
    /\ UNCHANGED <<clock, items, mode, dry, had_errors, backup, exitcode, runs,
                   fs0, hist, prev>>
    /\ UNCHANGED <<cliVars, past, valVars>>

\* Lines 219-220: the loop is over; typer.Exit(2) if an entry had an error.
LinkItemsEnd ==
    /\ pc = "end"
    /\ exitcode' = IF had_errors THEN 2 ELSE 0
    /\ pc' = "idle"
    /\ prev' = [dry |-> dry, exit |-> exitcode', direct |-> TRUE]
    /\ UNCHANGED <<fs, clock, items, mode, dry, idx, had_errors, backup, out, runs,
                   fs0, hist, muts>>
    /\ last' = [last EXCEPT !.code = exitcode']
    /\ UNCHANGED <<gate, past, valVars>>

\* An OSError of a system call (status 1), or remove_target's typer.Exit(2),
\* leaves link_items: the remaining entries are not processed.
Propagate ==
    /\ pc \in {"raised", "exit2"}
    /\ exitcode' = IF pc = "exit2" THEN 2 ELSE 1
    /\ pc' = "idle"
    /\ prev' = [dry |-> dry, exit |-> exitcode', direct |-> TRUE]
    /\ UNCHANGED <<fs, clock, items, mode, dry, idx, had_errors, backup, out, runs,
                   fs0, hist, muts>>
    /\ last' = [last EXCEPT !.code = exitcode']
    /\ UNCHANGED <<gate, past, valVars>>

(* Between two runs the user replaces the link at an entry's target by a   *)
(* regular file of their own.                                               *)
UserRecreate(key) ==
    /\ pc = "idle"
    /\ runs >= 1
    /\ runs < MaxRuns
    /\ IsSymlink(fs, Target(key))
    /\ fs' = With(fs, Lstat(fs, Target(key)).phys, File("new"))
    /\ prev' = [prev EXCEPT !.direct = FALSE]
    /\ UNCHANGED <<clock, items, mode, dry, pc, idx, had_errors, backup, out,
                   exitcode, runs, fs0, hist, muts>>
    /\ UNCHANGED <<cliVars, past, valVars>>

(* cli.verify: one failure per registry entry that is not linked, plus the *)
(* failures the other sections count (dependencies, validators, formatting, *)
(* keys, hooks, defaults); status 1 if there is any.                        *)
Verify(others) ==
    /\ pc = "idle"
    /\ LET unlinked == {i \in 1..Len(Registry) : status_of(fs, Registry[i]) # "linked"}
           fail == Cardinality(unlinked) + others
       IN last' = [cmd |-> "verify", why |-> IF fail > 0 THEN "failed" ELSE "clean",
                   code |-> IF fail > 0 THEN 1 ELSE 0]
    /\ UNCHANGED <<fs, clock, items, mode, dry, pc, idx, had_errors, backup, out,
                   exitcode, runs, fs0, hist, prev, muts, gate, past, valVars>>

\* A command line, with the options the command does not get to read (those
\* of a command line without known targets, the answer to a question that is
\* not asked) left at their defaults.
Next ==
    \/ \E targets \in {"none", "unknown", "given"}, d, y, a \in BOOLEAN :
           /\ targets # "given" => (~d /\ ~y)
           /\ a => (targets = "given" /\ Prompted(mode, d, y))
           /\ link(targets, d, y, a)
    \/ \E selected, d, proceed \in BOOLEAN :
           /\ ~selected => (~d /\ ~proceed)
           /\ run_wizard(selected, d, proceed)
    \/ \E others \in 0..1 : Verify(others)
    \/ Classify
    \/ \E t \in 1..MaxClock : RemoveTarget(t)
    \/ EnsureParentDir
    \/ CreateLink
    \/ LinkItemsEnd
    \/ Propagate
    \/ \E i \in 1..Len(items) : UserRecreate(items[i])

Spec == Init /\ [][Next]_vars

----------------------------------------------------------------------------
(* validation.py.  A parsed JSON document is a value [t, v, l]: a string,  *)
(* an integer (v holds its digits), null, a list (l holds the elements) or  *)
(* an object (l holds its members in the order of the file, which is the    *)
(* order a dict iterates in; a member holds its key in v and its value in   *)
(* l).                                                                      *)

JStr(s) == [t |-> "str", v |-> s, l |-> <<>>]
JInt(n) == [t |-> "int", v |-> ToString(n), l |-> <<>>]
JNull == [t |-> "null", v |-> "", l |-> <<>>]
JList(q) == [t |-> "list", v |-> "", l |-> q]
JObj(q) == [t |-> "obj", v |-> "", l |-> q]
Member(key, val) == [t |-> "member", v |-> key, l |-> <<val>>]

\* isinstance(x, dict), isinstance(x, list), isinstance(x, str)
IsDict(x) == x.t = "obj"
IsList(x) == x.t = "list"
IsStr(x) == x.t = "str"

\* key in obj, obj[key], and the keys in iteration order
Has(obj, key) == \E i \in 1..Len(obj.l) : obj.l[i].v = key
Get(obj, key) == obj.l[CHOOSE i \in 1..Len(obj.l) : obj.l[i].v = key].l[1]
KeysOf(obj) == [i \in 1..Len(obj.l) |-> obj.l[i].v]

\* hash(x) raises TypeError for lists and dicts
Hashable(x) == x.t \in {"str", "int", "null"}

RECURSIVE Join(_, _)
Join(q, sep) ==
    IF q = <<>> THEN ""
    ELSE IF Len(q) = 1 THEN q[1]
    ELSE q[1] \o sep \o Join(Tail(q), sep)

\* repr(x) of a scalar, and str(x) as an f-string formats it
PyReprScalar(x) ==
    IF x.t = "str" THEN "'" \o x.v \o "'"
    ELSE IF x.t = "null" THEN "None"
    ELSE x.v

PyStr(x) ==
    IF x.t = "str" THEN x.v
    ELSE IF x.t = "list"
         THEN "[" \o Join([i \in 1..Len(x.l) |-> PyReprScalar(x.l[i])], ", ") \o "]"
    ELSE IF x.t = "obj" THEN "{...}"
    ELSE PyReprScalar(x)

\* The position i of enumerate() as the f-string prints it
PyIndex(i) == ToString(i - 1)

RECURSIVE Concat(_)
Concat(qs) == IF qs = <<>> THEN <<>> ELSE Head(qs) \o Concat(Tail(qs))

(* An entry of the list of errors: the message, and a tag that names the    *)
(* statement that appended it.                                              *)
Err(id, text) == [id |-> id, text |-> text]

(* What a validator does: it returns a list of errors, or an exception      *)
(* leaves it and the list is lost.                                          *)
Returned(errs) == [raised |-> "", errors |-> errs]
Raised(exc) == [raised |-> exc, errors |-> <<>>]

(* The schema: a JSON Schema document reduced to the entries                *)
(* validate_json_schema reads.  A property is [name, type, enum], with ""   *)
(* for no declared type and <<>> for no enum.                               *)
Prop(name, type, enum) == [name |-> name, type |-> type, enum |-> enum]

ItemSchema(required, properties, closed) ==
    [required |-> required, properties |-> properties, closed |-> closed]

Schema(required, allowed, closed, array_key, item_schema) ==
    [required |-> required, allowed |-> allowed, closed |-> closed,
     array_key |-> array_key, items |-> item_schema]

\* val not in enum_vals, for a list of strings
InEnum(val, enum) == IsStr(val) /\ \E i \in 1..Len(enum) : enum[i] = val.v

\* Lines 38-46: required and unexpected keys of the root object.
root_errors(obj, sch) ==
    LET missing == SelectSeq(sch.required, LAMBDA k : ~Has(obj, k))
        extra == IF sch.closed
                 THEN SelectSeq(KeysOf(obj),
                                LAMBDA k : \A i \in 1..Len(sch.allowed) :
                                               sch.allowed[i] # k)
                 ELSE <<>>
    IN [i \in 1..Len(missing) |-> Err("missing-key", "missing required key: " \o missing[i])]
       \o [i \in 1..Len(extra) |-> Err("unexpected-key", "unexpected key: " \o extra[i])]

\* Mutant: the enumerated domain is checked before the declared type.
property_errors_enum_first(where, item, p, skip) ==
    IF ~Has(item, p.name) THEN <<>>
    ELSE LET val == Get(item, p.name)
         IN (IF p.enum # <<>> /\ ~InEnum(val, p.enum)
             THEN <<Err("not-in-enum",
                        where \o "." \o p.name \o ": must be one of ["
                        \o Join([i \in 1..Len(p.enum) |-> "'" \o p.enum[i] \o "'"], ", ")
                        \o "], got '" \o PyStr(val) \o "'")>>
             ELSE <<>>)
            \o
            (IF p.name \notin skip /\ p.type = "string" /\ ~IsStr(val)
             THEN <<Err("not-string", where \o "." \o p.name \o ": must be a string")>>
             ELSE <<>>)

\* Lines 71-84: the declared type and the enum of one property of an element.
property_errors(where, item, p, skip) ==
    IF ~Has(item, p.name) THEN <<>>
    ELSE LET val == Get(item, p.name)
         IN (IF p.name \notin skip /\ p.type = "string" /\ ~IsStr(val)
             THEN <<Err("not-string", where \o "." \o p.name \o ": must be a string")>>
             ELSE <<>>)
            \o
            (IF p.enum # <<>> /\ ~InEnum(val, p.enum)
             THEN <<Err("not-in-enum",
                        where \o "." \o p.name \o ": must be one of ["
                        \o Join([i \in 1..Len(p.enum) |-> "'" \o p.enum[i] \o "'"], ", ")
                        \o "], got '" \o PyStr(val) \o "'")>>
             ELSE <<>>)

----------------------------------------------------------------------------
(* validate_deps_schema: the two closures and the call.                     *)

\* Lines 95-100: _item_validator.
item_validator(i, item) ==
    IF Has(item, "depends") /\ IsList(Get(item, "depends"))
    THEN LET bad == SelectSeq(Get(item, "depends").l, LAMBDA d : ~IsStr(d))
         IN [j \in 1..Len(bad) |->
                Err("dep-not-string",
                    "checks[" \o PyIndex(i) \o "].depends: items must be strings")]
    ELSE <<>>

(* for dep in item.get("depends", []): the values the loop visits, or       *)
(* TypeError when the value is not iterable.  A string iterates over its    *)
(* characters and a dict over its keys.                                     *)
Chars(s) == [i \in 1..Len(s) |-> JStr(SubSeq(s, i, i))]

Iterable(item) ==
    ~Has(item, "depends") \/ Get(item, "depends").t \in {"list", "str", "obj"}

depends_of(item) ==
    IF ~Has(item, "depends") THEN <<>>
    ELSE LET d == Get(item, "depends")
         IN IF d.t = "list" THEN d.l
            ELSE IF d.t = "str" THEN Chars(d.v)
            ELSE [i \in 1..Len(d.l) |-> JStr(d.l[i].v)]

\* Lines 103-107: the items that declare a label, and all_labels.
Labelled(elems) == SelectSeq(elems, LAMBDA x : IsDict(x) /\ Has(x, "label"))

all_labels(elems) ==
    {Get(Labelled(elems)[i], "label") : i \in 1..Len(Labelled(elems))}

\* Lines 108-115: the unknown-label errors, in the order of the file.
unknown_labels(elems) ==
    Concat([i \in 1..Len(elems) |->
        IF ~IsDict(elems[i]) THEN <<>>
        ELSE LET deps == depends_of(elems[i])
                 unknown == SelectSeq(deps, LAMBDA d : d \notin all_labels(elems))
             IN [j \in 1..Len(unknown) |->
                    Err("unknown-label",
                        "checks[" \o PyIndex(i) \o "].depends: unknown label '"
                        \o PyStr(unknown[j]) \o "'")]])

(* Lines 117-127: the graph.  edges lists <<dep, label>> in the order the   *)
(* loops meet them; dependents[dep] is the list of labels appended for dep  *)
(* and in_degree[label] the number of increments for label; the keys of     *)
(* in_degree are the labels in the order of their first setdefault.         *)
\* Mutant: a dependency on an unknown label is counted too.
edges_unfiltered(elems) ==
    Concat([i \in 1..Len(Labelled(elems)) |->
        LET item == Labelled(elems)[i]
            deps == depends_of(item)
        IN [j \in 1..Len(deps) |-> <<deps[j], Get(item, "label")>>]])

edges(elems) ==
    Concat([i \in 1..Len(Labelled(elems)) |->
        LET item == Labelled(elems)[i]
            known == SelectSeq(depends_of(item), LAMBDA d : d \in all_labels(elems))
        IN [j \in 1..Len(known) |-> <<known[j], Get(item, "label")>>]])

dependents(elems, node) ==
    LET from == SelectSeq(edges(elems), LAMBDA e : e[1] = node)
    IN [j \in 1..Len(from) |-> from[j][2]]

\* Mutant: a dependency of a label on itself is not counted.
in_degree_no_self(elems) ==
    [label \in all_labels(elems) |->
        Len(SelectSeq(edges(elems), LAMBDA e : e[2] = label /\ e[1] # label))]

in_degree(elems) ==
    [label \in all_labels(elems) |->
        Len(SelectSeq(edges(elems), LAMBDA e : e[2] = label))]

RECURSIVE Dedup(_)
Dedup(q) ==
    IF q = <<>> THEN <<>>
    ELSE LET rest == Dedup(SubSeq(q, 1, Len(q) - 1))
             x == q[Len(q)]
         IN IF \E i \in 1..Len(rest) : rest[i] = x THEN rest ELSE Append(rest, x)

label_order(elems) ==
    Dedup([i \in 1..Len(Labelled(elems)) |-> Get(Labelled(elems)[i], "label")])

\* Lines 136-139: for child in dependents[node].
RECURSIVE release(_, _, _)
release(deg, queue, children) ==
    IF children = <<>> THEN [deg |-> deg, queue |-> queue]
    ELSE LET child == Head(children)
             d == [deg EXCEPT ![child] = @ - 1]
         IN release(d, IF d[child] = 0 THEN Append(queue, child) ELSE queue,
                    Tail(children))

\* Lines 133-139: while queue.
RECURSIVE kahn(_, _, _, _)
kahn(elems, deg, queue, visited) ==
    IF queue = <<>> THEN [deg |-> deg, visited |-> visited]
    ELSE LET r == release(deg, Tail(queue), dependents(elems, Head(queue)))
         IN kahn(elems, r.deg, r.queue, visited + 1)

(* sorted() of a list of strings: by code point.  The upper-case letters   *)
(* start at 65 and the lower-case letters at 97.                            *)
Alphabet == "abcdefghijklmnopqrstuvwxyz"
Upper == "ABCDEFGHIJKLMNOPQRSTUVWXYZ"
IsUpper(c) == \E i \in 1..Len(Upper) : SubSeq(Upper, i, i) = c
Ord(c) ==
    IF IsUpper(c)
    THEN 64 + (CHOOSE i \in 1..Len(Upper) : SubSeq(Upper, i, i) = c)
    ELSE 96 + (CHOOSE i \in 1..Len(Alphabet) : SubSeq(Alphabet, i, i) = c)

RECURSIVE StrLess(_, _)
StrLess(s, u) ==
    IF u = "" THEN FALSE
    ELSE IF s = "" THEN TRUE
    ELSE LET a == Ord(SubSeq(s, 1, 1))
             b == Ord(SubSeq(u, 1, 1))
         IN IF a # b THEN a < b
            ELSE StrLess(SubSeq(s, 2, Len(s)), SubSeq(u, 2, Len(u)))

\* Mutant: the members are listed in the order of in_degree.
sorted_as_met(q) == q

sorted(q) == SortSeq(q, StrLess)

\* Lines 102-147: _extra_validator.
extra_validator(elems) ==
    LET named == Labelled(elems)
    IN IF \E i \in 1..Len(named) : ~Hashable(Get(named[i], "label"))
       THEN Raised("TypeError")
       ELSE IF \E i \in 1..Len(elems) :
                   /\ IsDict(elems[i])
                   /\ \/ ~Iterable(elems[i])
                      \/ \E j \in 1..Len(depends_of(elems[i])) :
                             ~Hashable(depends_of(elems[i])[j])
       THEN Raised("TypeError")
       ELSE LET deg == in_degree(elems)
                order == label_order(elems)
                k == kahn(elems, deg, SelectSeq(order, LAMBDA l : deg[l] = 0), 0)
                left == SelectSeq(order, LAMBDA l : k.deg[l] > 0)
            IN IF k.visited < Cardinality(all_labels(elems))
               THEN IF \E i \in 1..Len(left) : ~IsStr(left[i])
                    THEN Raised("TypeError")
                    ELSE LET cycle_members == sorted([i \in 1..Len(left) |-> left[i].v])
                         IN Returned(Append(unknown_labels(elems),
                                Err("cycle", "dependency cycle detected among: "
                                             \o Join(cycle_members, ", "))))
               ELSE Returned(unknown_labels(elems))

\* Lines 85-86 and 88-89: the callbacks are called when the caller passed them.
call_item_validator(iv, i, item) ==
    IF iv = "none" THEN <<>> ELSE item_validator(i, item)

call_extra_validator(ev, elems) ==
    IF ev = "none" THEN Returned(<<>>) ELSE extra_validator(elems)

\* Lines 61-86: one element of the array; iv names the extra_item_validator.
item_errors(where, i, item, item_schema, skip, iv) ==
    IF ~IsDict(item) THEN <<Err("not-object", where \o ": must be an object")>>
    ELSE LET missing == SelectSeq(item_schema.required, LAMBDA f : ~Has(item, f))
             extra == IF item_schema.closed
                      THEN SelectSeq(KeysOf(item),
                                     LAMBDA k : \A j \in 1..Len(item_schema.properties) :
                                                    item_schema.properties[j].name # k)
                      ELSE <<>>
         IN [j \in 1..Len(missing) |->
                Err("missing-field", where \o ": missing required field: " \o missing[j])]
            \o [j \in 1..Len(extra) |->
                   Err("unexpected-field", where \o ": unexpected field: " \o extra[j])]
            \o Concat([j \in 1..Len(item_schema.properties) |->
                          property_errors(where, item, item_schema.properties[j], skip)])
            \o call_item_validator(iv, i, item)

(* validate_json_schema(json_path, schema_path, array_key, ...) once the    *)
(* two files are loaded: doc is the document, sch the schema; skip is      *)
(* skip_type_check_fields, iv names the extra_item_validator and ev the     *)
(* extra_validator ("none" when the caller passes none).                    *)
validate_json_schema(doc, sch, skip, iv, ev) ==
    IF ~IsDict(doc) THEN Returned(<<Err("root", "root must be an object")>>)
    ELSE LET top == root_errors(doc, sch)
             present == Has(doc, sch.array_key) /\ Get(doc, sch.array_key).t # "null"
         IN IF ~present THEN Returned(top)
            ELSE LET arr == Get(doc, sch.array_key)
                 IN IF ~IsList(arr)
                    THEN Returned(Append(top,
                             Err("not-array", "'" \o sch.array_key \o "' must be an array")))
                    ELSE LET per == Concat([i \in 1..Len(arr.l) |->
                                        item_errors(sch.array_key \o "[" \o PyIndex(i) \o "]",
                                                    i, arr.l[i], sch.items, skip, iv)])
                             extra == call_extra_validator(ev, arr.l)
                         IN IF extra.raised # "" THEN Raised(extra.raised)
                            ELSE Returned(top \o per \o extra.errors)

\* Lines 149-155.
validate_deps_schema(doc, sch) ==
    validate_json_schema(doc, sch, {}, "deps", "deps")

\* Lines 158-164.
validate_defaults_schema(doc, sch) ==
    validate_json_schema(doc, sch, {"value"}, "none", "none")

----------------------------------------------------------------------------
(* The documents and schemas the validators are run on.                     *)

MaxChecks == 3
MaxDeps == 2
MaxEdges == 4

LabelName(i) == SubSeq(Alphabet, i, i)

\* The label lists of n checks: ascending, descending, and with a repeated label.
LabelLists(n) ==
    {[i \in 1..n |-> LabelName(i)], [i \in 1..n |-> LabelName(n + 1 - i)]}
    \cup (IF n >= 2 THEN {[i \in 1..n |-> IF i = n THEN LabelName(1) ELSE LabelName(i)]}
          ELSE {})

\* What a depends list can name: the labels of n checks, and a label nobody declares.
Symbol(n, i) == IF i = n + 1 THEN "missing" ELSE LabelName(i)

RECURSIVE Ascending(_)
Ascending(S) ==
    IF S = {} THEN <<>>
    ELSE LET m == CHOOSE x \in S : \A y \in S : x <= y
         IN <<m>> \o Ascending(S \ {m})

\* The depends lists: up to MaxDeps distinct names, or one name twice.
DependsLists(n) ==
    {[i \in 1..Len(Ascending(S)) |-> JStr(Symbol(n, Ascending(S)[i]))] :
        S \in {T \in SUBSET (1..(n + 1)) : Cardinality(T) <= MaxDeps}}
    \cup (IF MaxDeps >= 2
          THEN {<<JStr(Symbol(n, i)), JStr(Symbol(n, i))>> : i \in 1..(n + 1)}
          ELSE {})

Check(label, depends) ==
    JObj(<<Member("label", JStr(label)), Member("kind", JStr("command")),
           Member("depends", JList(depends))>>)

DepsDoc(elems) == JObj(<<Member("checks", JList(elems))>>)

\* The number of names in the depends lists of a document.
RECURSIVE TotalLen(_)
TotalLen(qs) == IF qs = <<>> THEN 0 ELSE Len(Head(qs)) + TotalLen(Tail(qs))

\* A well-formed document: n checks, each with a label and a list of names.
GraphDoc(n, labels, deps) == DepsDoc([i \in 1..n |-> Check(labels[i], deps[i])])

KindEnum == <<"command", "dir", "file">>

DepsItemSchema(closed) ==
    ItemSchema(<<"label", "kind">>,
               <<Prop("label", "string", <<>>), Prop("kind", "string", KindEnum),
                 Prop("depends", "array", <<>>)>>,
               closed)

DepsSchema(closed) ==
    Schema(<<"checks">>, <<"checks">>, closed, "checks", DepsItemSchema(closed))

\* obj with key set to val (appended when new), and obj without key
Put(obj, key, val) ==
    IF Has(obj, key)
    THEN JObj([i \in 1..Len(obj.l) |->
                  IF obj.l[i].v = key THEN Member(key, val) ELSE obj.l[i]])
    ELSE JObj(Append(obj.l, Member(key, val)))

Drop(obj, key) == JObj(SelectSeq(obj.l, LAMBDA kv : kv.v # key))

\* Ways in which one element of the array is malformed.
ElementDefects ==
    {"not-object", "no-label", "label-int", "label-list", "label-null",
     "depends-null", "depends-int", "depends-string", "depends-object",
     "dep-int", "dep-list", "no-depends", "kind-unknown", "kind-int", "no-kind",
     "extra-field"}

Malformed(item, defect) ==
    CASE defect = "not-object" -> JStr("x")
      [] defect = "no-label" -> Drop(item, "label")
      [] defect = "label-int" -> Put(item, "label", JInt(1))
      [] defect = "label-list" -> Put(item, "label", JList(<<>>))
      [] defect = "label-null" -> Put(item, "label", JNull)
      [] defect = "depends-null" -> Put(item, "depends", JNull)
      [] defect = "depends-int" -> Put(item, "depends", JInt(1))
      [] defect = "depends-string" -> Put(item, "depends", JStr("a"))
      [] defect = "depends-object" -> Put(item, "depends", JObj(<<Member("a", JInt(1))>>))
      [] defect = "dep-int" -> Put(item, "depends", JList(<<JInt(1)>>))
      [] defect = "dep-list" -> Put(item, "depends", JList(<<JList(<<>>)>>))
      [] defect = "no-depends" -> Drop(item, "depends")
      [] defect = "kind-unknown" -> Put(item, "kind", JStr("bogus"))
      [] defect = "kind-int" -> Put(item, "kind", JInt(1))
      [] defect = "no-kind" -> Drop(item, "kind")
      [] defect = "extra-field" -> Put(item, "extra", JStr("x"))

\* Ways in which the root of the document is malformed.
RootDefects == {"not-object", "no-array", "array-null", "array-string", "extra-key"}

MalformedRoot(doc, defect) ==
    CASE defect = "not-object" -> JList(<<>>)
      [] defect = "no-array" -> Drop(doc, "checks")
      [] defect = "array-null" -> Put(doc, "checks", JNull)
      [] defect = "array-string" -> Put(doc, "checks", JStr("x"))
      [] defect = "extra-key" -> Put(doc, "version", JInt(1))

\* Two checks a and b, each depending on nothing, on itself or on the other.
BaseChecks ==
    {<<Check("a", da), Check("b", db)>> :
        da \in {<<>>, <<JStr("a")>>, <<JStr("b")>>},
        db \in {<<>>, <<JStr("a")>>, <<JStr("missing")>>}}

\* A document with one malformed element, and one with a malformed root.
MalformedDoc(base, p, defect) == DepsDoc([base EXCEPT ![p] = Malformed(base[p], defect)])
MalformedRootDoc(base, defect) == MalformedRoot(DepsDoc(base), defect)

\* A document with a key the schema does not declare and two malformed elements.
TwiceMalformedDoc(base, first, second) ==
    MalformedRoot(DepsDoc(<<Malformed(base[1], first), Malformed(base[2], second)>>),
                  "extra-key")

(* macos-defaults.json: entries with a key, a type of an enumerated domain  *)
(* and a value of any JSON type.                                            *)
TypeEnum == <<"bool", "int", "float", "string">>

Default(key, type, value) ==
    JObj(<<Member("key", key), Member("type", type), Member("value", value)>>)

DefaultsDoc(k, ty, val) == JObj(<<Member("defaults", JList(<<Default(k, ty, val)>>))>>)

\* value is declared a string, or of no type, or of an enumerated domain.
DefaultsSchemas ==
    {Schema(<<"defaults">>, <<"defaults">>, TRUE, "defaults",
            ItemSchema(<<"key", "type", "value">>,
                       <<Prop("key", "string", <<>>), Prop("type", "string", TypeEnum),
                         value>>,
                       TRUE)) :
        value \in {Prop("value", "string", <<>>), Prop("value", "", <<>>),
                   Prop("value", "string", <<"x", "y">>)}}

NotRun == [raised |-> "", errors |-> <<>>]

\* The link session does not take part in a validation.
LinkOff ==
    /\ fs = MkFs(<<Absent, Absent>>, <<Absent, Absent>>, <<Absent, Absent>>)
    /\ clock = 1
    /\ items = <<>>
    /\ mode = "safe"
    /\ dry = FALSE
    /\ pc = "off"
    /\ idx = 0
    /\ had_errors = FALSE
    /\ backup = None
    /\ out = <<>>
    /\ exitcode = -1
    /\ runs = 0
    /\ fs0 = fs
    /\ hist = <<>>
    /\ prev = NoPrev
    /\ muts = 0
    /\ gate = NoGate
    /\ last = NoCommand
    /\ past = NoPast

linkVars == <<fs, clock, items, mode, dry, pc, idx, had_errors, backup, out,
              exitcode, runs, fs0, hist, prev, muts, gate, last, past>>

ValidatorInit ==
    /\ LinkOff
    /\ report = NotRun
    /\ env = {}
    /\ \/ /\ vpc = "deps"
          /\ \E n \in 0..MaxChecks :
                 \E labels \in LabelLists(n), deps \in [1..n -> DependsLists(n)] :
                     /\ TotalLen(deps) <= MaxEdges
                     /\ data = GraphDoc(n, labels, deps)
          /\ schema = DepsSchema(TRUE)
       \/ /\ vpc = "deps"
          /\ \E base \in BaseChecks :
                 \/ \E p \in 1..2, defect \in ElementDefects :
                        data = MalformedDoc(base, p, defect)
                 \/ \E defect \in RootDefects : data = MalformedRootDoc(base, defect)
                 \/ \E first, second \in ElementDefects :
                        data = TwiceMalformedDoc(base, first, second)
          /\ schema \in {DepsSchema(TRUE), DepsSchema(FALSE)}
       \/ /\ vpc = "defaults"
          /\ \E k \in {JStr("k"), JInt(1)},
                ty \in {JStr("bool"), JStr("bogus"), JInt(1)},
                val \in {JStr("x"), JInt(1), JList(<<>>), JNull} :
                     data = DefaultsDoc(k, ty, val)
          /\ schema \in DefaultsSchemas

\* validate_deps_schema() on scripts/deps.json
ValidateDeps ==
    /\ vpc = "deps"
    /\ report' = validate_deps_schema(data, schema)
    /\ vpc' = "done"
    /\ UNCHANGED <<data, schema, env, linkVars>>

\* validate_defaults_schema() on scripts/macos-defaults.json
ValidateDefaults ==
    /\ vpc = "defaults"
    /\ report' = validate_defaults_schema(data, schema)
    /\ vpc' = "done"
    /\ UNCHANGED <<data, schema, env, linkVars>>

ValidatorNext == ValidateDeps \/ ValidateDefaults

ValidatorSpec == ValidatorInit /\ [][ValidatorNext]_vars

----------------------------------------------------------------------------
(* cli.verify, section 2 (Dependencies): the checks of scripts/deps.json    *)
(* are reported in the order of their case-folded labels, each OK when the  *)
(* predicate of its kind holds of its target and MISSING otherwise.         *)

\* str.replace(old, new)
RECURSIVE replace(_, _, _)
replace(s, old, new) ==
    IF Len(s) < Len(old) THEN s
    ELSE IF SubSeq(s, 1, Len(old)) = old
         THEN new \o replace(SubSeq(s, Len(old) + 1, Len(s)), old, new)
         ELSE SubSeq(s, 1, 1) \o replace(SubSeq(s, 2, Len(s)), old, new)

\* str(Path.home())
HomeDir == "/H"

\* check["target"] = check["target"].replace("$HOME", home)
LoadedCheck(check) ==
    JObj([i \in 1..Len(check.l) |->
            IF check.l[i].v = "target"
            THEN Member("target", JStr(replace(check.l[i].l[1].v, "$HOME", HomeDir)))
            ELSE check.l[i]])

load_dep_checks(doc) ==
    LET checks == Get(doc, "checks").l
    IN [i \in 1..Len(checks) |-> LoadedCheck(checks[i])]

\* str.casefold() of a string of ASCII letters
RECURSIVE casefold(_)
casefold(s) ==
    IF s = "" THEN ""
    ELSE LET c == SubSeq(s, 1, 1)
         IN (IF IsUpper(c)
             THEN LET i == CHOOSE k \in 1..Len(Upper) : SubSeq(Upper, k, k) = c
                  IN SubSeq(Alphabet, i, i)
             ELSE c) \o casefold(SubSeq(s, 2, Len(s)))

\* Mutant: the checks are ordered by their labels as they are written.
SortKeyCased(check) == Get(check, "label").v

\* key=lambda c: c["label"].casefold()
SortKey(check) == casefold(Get(check, "label").v)

\* sorted(checks, key=...): the sort is stable, checks of equal keys keep
\* their order.
RECURSIVE sorted_checks(_)
sorted_checks(checks) ==
    IF checks = <<>> THEN <<>>
    ELSE LET rest == sorted_checks(SubSeq(checks, 1, Len(checks) - 1))
             c == checks[Len(checks)]
             before == SelectSeq(rest, LAMBDA x : ~StrLess(SortKey(c), SortKey(x)))
             after == SelectSeq(rest, LAMBDA x : StrLess(SortKey(c), SortKey(x)))
         IN before \o <<c>> \o after

\* check.get("depends", [])
Depends(check) ==
    IF Has(check, "depends")
    THEN [i \in 1..Len(Get(check, "depends").l) |-> Get(check, "depends").l[i].v]
    ELSE <<>>

\* required_by[dep]: the label of the check, once per time its depends list
\* names dep, in the order of the checks.
RECURSIVE required_by(_, _)
required_by(checks, dep) ==
    IF checks = <<>> THEN <<>>
    ELSE required_by(SubSeq(checks, 1, Len(checks) - 1), dep)
         \o [i \in 1..Len(SelectSeq(Depends(checks[Len(checks)]), LAMBDA d : d = dep))
                |-> Get(checks[Len(checks)], "label").v]

\* predicate = KIND_PREDICATE.get(kind); predicate and predicate(target)
predicate(check, e) ==
    /\ Get(check, "kind").v \in {"command", "dir", "file"}
    /\ <<Get(check, "kind").v, Get(check, "target").v>> \in e

\* if label in required_by: hints.append(...)
RequiredByHint(checks, label) ==
    IF required_by(checks, label) # <<>>
    THEN <<"required by: " \o Join(sorted(required_by(checks, label)), ", ")>>
    ELSE <<>>

\* Mutant: a check that depends on a check that is not installed is MISSING.
CheckLineDependent(checks, check, e) ==
    LET label == Get(check, "label").v
        text == label \o " - " \o Get(check, "kind").v \o ": " \o Get(check, "target").v
        unmet == \E i \in 1..Len(checks), j \in 1..Len(Depends(check)) :
                     /\ Get(checks[i], "label").v = Depends(check)[j]
                     /\ ~predicate(checks[i], e)
    IN IF predicate(check, e) /\ ~unmet
       THEN [tag |-> "OK", label |-> label, text |-> text]
       ELSE [tag |-> "MISSING", label |-> label, text |-> text]

\* The line printed for one check.
CheckLine(checks, check, e) ==
    LET label == Get(check, "label").v
        kind == Get(check, "kind").v
        target == Get(check, "target").v
        text == label \o " - " \o kind \o ": " \o target
        hints == RequiredByHint(checks, label)
                 \o (IF Has(check, "install") /\ Get(check, "install").v # ""
                     THEN <<"install: " \o Get(check, "install").v>>
                     ELSE <<>>)
        hint == IF hints # <<>> THEN " (" \o Join(hints, ", ") \o ")" ELSE ""
    IN IF predicate(check, e)
       THEN [tag |-> "OK", label |-> label, text |-> text]
       ELSE [tag |-> "MISSING", label |-> label, text |-> text \o hint]

\* Lines 84-112 for the loaded checks and the machine e.
verify_deps(checks, e) ==
    LET order == sorted_checks(checks)
        lines == [i \in 1..Len(order) |-> CheckLine(checks, order[i], e)]
    IN [lines |-> lines,
        ok |-> Cardinality({i \in 1..Len(lines) : lines[i].tag = "OK"}),
        fail |-> Cardinality({i \in 1..Len(lines) : lines[i].tag = "MISSING"})]

\* The checks verify is run on: distinct labels in both cases, in any order;
\* depends lists; a first check of a kind with a predicate or without, the
\* directory with an install hint.
VerifyLabels == {"a", "B", "b", "C"}
VerifyDepends == {<<>>, <<JStr("a")>>, <<JStr("b"), JStr("B")>>}
VerifyKinds == {"command", "dir", "bogus"}

VerifyTarget(kind, label) == IF kind = "dir" THEN "$HOME/" \o label ELSE label

VerifyCheck(label, kind, depends, install) ==
    JObj(<<Member("label", JStr(label)), Member("kind", JStr(kind)),
           Member("target", JStr(VerifyTarget(kind, label)))>>
         \o (IF depends # <<>> THEN <<Member("depends", JList(depends))>> ELSE <<>>)
         \o (IF install THEN <<Member("install", JStr("url"))>> ELSE <<>>))

VerifyDoc(n, labels, kind, deps) ==
    DepsDoc([i \in 1..n |->
               VerifyCheck(labels[i], IF i = 1 THEN kind ELSE "command", deps[i],
                           i = 1 /\ kind = "dir")])

Targets(checks) ==
    {<<Get(checks[i], "kind").v, Get(checks[i], "target").v>> : i \in 1..Len(checks)}

VerifyInit ==
    /\ LinkOff
    /\ schema = <<>>
    /\ report = NotRun
    /\ vpc = "verify"
    /\ \E n \in 1..MaxChecks :
           \E labels \in [1..n -> VerifyLabels], deps \in [1..n -> VerifyDepends],
              kind \in VerifyKinds :
               /\ \A i, j \in 1..n : labels[i] = labels[j] => i = j
               /\ TotalLen(deps) <= MaxEdges
               /\ data = VerifyDoc(n, labels, kind, deps)
    /\ env \in SUBSET Targets(load_dep_checks(data))

\* verify, section 2
VerifyDeps ==
    /\ vpc = "verify"
    /\ report' = verify_deps(load_dep_checks(data), env)
    /\ vpc' = "verified"
    /\ UNCHANGED <<data, schema, env, linkVars>>

VerifyDepsSpec == VerifyInit /\ [][VerifyDeps]_vars

\* The program runs a link session or the dependency section of verify.
OrderNext == Next \/ VerifyDeps

OrderSpec == (Init \/ VerifyInit) /\ [][OrderNext]_vars

----------------------------------------------------------------------------
(* A session in which the first run of link_items can be interrupted.      *)

(* The process is killed between two steps of link_items: nothing is       *)
(* undone, nothing more is written.                                        *)
Interrupt ==
    /\ pc \in {"classify", "remove", "mkdir", "symlink", "end"}
    /\ runs = 1
    /\ ~dry
    /\ exitcode' = Killed
    /\ pc' = "idle"
    /\ prev' = [dry |-> dry, exit |-> Killed, direct |-> TRUE]
    /\ last' = [last EXCEPT !.code = Killed]
    /\ UNCHANGED <<fs, clock, items, mode, dry, idx, had_errors, backup, out, runs,
                   fs0, hist, muts, gate, past, valVars>>

(* The process is killed within a step, after the rename of remove_target  *)
(* or the symlink_to of create_link has returned and before the BACKUP or   *)
(* LINKED line that follows it is echoed.                                   *)
InterruptAfterCall(t) ==
    /\ runs = 1
    /\ ~dry
    /\ \/ /\ pc = "remove"
          /\ t >= clock
          /\ mode # "backup" => t = clock
          /\ clock' = IF mode = "backup" THEN t ELSE clock
          /\ LET r == remove_target(fs, Target(Item), mode, dry, t)
             IN /\ r.what = "mv"
                /\ fs' = r.fs
                /\ muts' = Count(fs, r.fs)
       \/ /\ pc = "symlink"
          /\ t = clock
          /\ LET r == symlink_to(fs, Item, dry)
             IN /\ r.what # "oserror"
                /\ fs' = r.fs
                /\ muts' = Count(fs, r.fs)
          /\ UNCHANGED clock
    /\ exitcode' = Killed
    /\ pc' = "idle"
    /\ prev' = [dry |-> dry, exit |-> Killed, direct |-> TRUE]
    /\ last' = [last EXCEPT !.code = Killed]
    /\ UNCHANGED <<items, mode, dry, idx, had_errors, backup, out, runs, fs0, hist,
                   gate, past, valVars>>

\* Real runs of the batch, started with --yes.
InterruptNext ==
    \/ link("given", FALSE, TRUE, FALSE)
    \/ Classify
    \/ \E t \in 1..MaxClock : RemoveTarget(t)
    \/ EnsureParentDir
    \/ CreateLink
    \/ LinkItemsEnd
    \/ Propagate
    \/ Interrupt
    \/ \E t \in 1..MaxClock : InterruptAfterCall(t)

InterruptSpec == Init /\ [][InterruptNext]_vars

(* link_items(keys, m, dry_run = False) run from filesystem f to its end   *)
(* without interruption, every backup taken at second t: the filesystem it  *)
(* leaves.  An OSError or typer.Exit of a step ends the run there.          *)
RECURSIVE uninterrupted(_, _, _, _)
uninterrupted(f, keys, m, t) ==
    IF keys = <<>> THEN f
    ELSE LET key == Head(keys)
             d == decide(f, key, status_of(f, key), m)
         IN IF d \in {"error", "skip-linked", "skip-exists"}
            THEN uninterrupted(f, Tail(keys), m, t)
            ELSE LET r == IF d = "remove"
                          THEN remove_target(f, Target(key), m, FALSE, t)
                          ELSE [what |-> "none", ret |-> None, fs |-> f]
                 IN IF r.what \in {"oserror", "exit2"} THEN r.fs
                    ELSE LET e == ensure_parent_dir(r.fs, Target(key), FALSE)
                         IN IF e.what = "oserror" THEN e.fs
                            ELSE LET c == symlink_to(e.fs, key, FALSE)
                                 IN IF c.what = "oserror" THEN c.fs
                                    ELSE uninterrupted(c.fs, Tail(keys), m, t)

----------------------------------------------------------------------------
(* cli.link with the targets of the command line: resolve_items turns the  *)
(* raw keys into the batch before confirm_mode and link_items are called.   *)

MaxTargets == 2

\* str.strip(), for the blank
RECURSIVE strip(_)
strip(s) ==
    IF s = "" THEN ""
    ELSE IF SubSeq(s, 1, 1) = " " THEN strip(SubSeq(s, 2, Len(s)))
    ELSE IF SubSeq(s, Len(s), Len(s)) = " " THEN strip(SubSeq(s, 1, Len(s) - 1))
    ELSE s

\* item.key of a registry entry: the path below the repository, as a string
KeyOf(item) == Join(item, "/")

\* load_link_items(): the entries of scripts/links.json in the order of the file
load_link_items == Registry

\* lookup = {item.key: item for item in items}
InLookup(key) == \E i \in 1..Len(load_link_items) : KeyOf(load_link_items[i]) = key
lookup(key) == load_link_items[CHOOSE i \in 1..Len(load_link_items) :
                                   KeyOf(load_link_items[i]) = key]

\* Mutant: an entry is appended each time it is named.
RECURSIVE chosen_each_time(_)
chosen_each_time(keys) ==
    IF keys = <<>> THEN <<>>
    ELSE LET before == chosen_each_time(SubSeq(keys, 1, Len(keys) - 1))
             key == strip(keys[Len(keys)])
         IN IF ~InLookup(key) THEN before
            ELSE Append(before, lookup(key))

\* Lines 57-65: the entries chosen, once each, in the order they are first named.
RECURSIVE chosen_items(_)
chosen_items(keys) ==
    IF keys = <<>> THEN <<>>
    ELSE LET before == chosen_items(SubSeq(keys, 1, Len(keys) - 1))
             key == strip(keys[Len(keys)])
         IN IF ~InLookup(key) THEN before
            ELSE IF \E i \in 1..Len(before) : before[i] = lookup(key) THEN before
            ELSE Append(before, lookup(key))

\* Lines 57-63: the raw keys the registry does not have, as they were given.
unknown_keys(keys) == SelectSeq(keys, LAMBDA raw : ~InLookup(strip(raw)))

\* resolve_items(keys, use_all): the batch, or typer.BadParameter with its message.
resolve_items(keys, use_all) ==
    IF use_all THEN [raised |-> FALSE, message |-> "", items |-> load_link_items]
    ELSE IF unknown_keys(keys) # <<>>
    THEN [raised |-> TRUE,
          message |-> "Unknown target(s): " \o Join(unknown_keys(keys), ", ")
                      \o ". Use 'list' to see options.",
          items |-> <<>>]
    ELSE [raised |-> FALSE, message |-> "", items |-> chosen_items(keys)]

\* What the command line can name: keys of the registry, bare or with
\* blanks around them, and keys the registry does not have.
RawKeys == {"d", " d/f ", "x", " y"}

RECURSIVE Targets_(_)
Targets_(n) ==
    IF n = 0 THEN {<<>>}
    ELSE Targets_(n - 1)
         \cup {Append(q, raw) : q \in {t \in Targets_(n - 1) : Len(t) = n - 1},
                                raw \in RawKeys}

TargetLists == Targets_(MaxTargets)

\* The targets and --all of a command line; with --all, at most one target.
Invocations ==
    {inv \in TargetLists \X BOOLEAN : inv[2] => Len(inv[1]) <= 1}

\* No command has been given: there is no batch yet.
ResolveInit ==
    /\ \E r \in RepoChoices, h \in HomeChoices :
           fs = MkFs(r, h, <<Absent, Absent>>)
    /\ clock = 1
    /\ items = <<>>
    /\ mode \in Modes
    /\ dry = FALSE
    /\ pc = "idle"
    /\ idx = 0
    /\ had_errors = FALSE
    /\ backup = None
    /\ out = <<>>
    /\ exitcode = -1
    /\ runs = 0
    /\ fs0 = fs
    /\ hist = <<>>
    /\ prev = NoPrev
    /\ muts = 0
    /\ gate = NoGate
    /\ last = NoCommand
    /\ past = NoPast
    /\ ValidatorOff

\* cli.link(targets, all_targets, mode, yes, dry_run); a is the answer to the
\* prompt when there is one.  A usage error and typer.BadParameter end the
\* command with status 2, a declined confirmation with status 1.
LinkTargets(targets, all_targets, d, y, a) ==
    /\ pc = "idle"
    /\ last.cmd = "none"
    /\ LET r == resolve_items(targets, all_targets)
           said(why, code) == [cmd |-> "link", why |-> why, code |-> code,
                               targets |-> targets, all |-> all_targets]
       IN IF targets = <<>> /\ ~all_targets
          THEN /\ last' = said("No targets specified. Use --all or run the wizard.", 2)
               /\ UNCHANGED <<fs, clock, items, mode, dry, pc, idx, had_errors, backup,
                              out, exitcode, runs, fs0, hist, prev, muts, gate, past>>
          ELSE IF r.raised
          THEN /\ last' = said(r.message, 2)
               /\ UNCHANGED <<fs, clock, items, mode, dry, pc, idx, had_errors, backup,
                              out, exitcode, runs, fs0, hist, prev, muts, gate, past>>
          ELSE /\ gate' = [dry |-> d, yes |-> y, asked |-> Prompted(mode, d, y),
                           answer |-> Prompted(mode, d, y) /\ a]
               /\ IF ~confirm_mode(mode, d, y, a)
                  THEN /\ last' = said("Aborted.", 1)
                       /\ UNCHANGED <<fs, clock, items, mode, dry, pc, idx, had_errors,
                                      backup, out, exitcode, runs, fs0, hist, prev, muts,
                                      past>>
                  ELSE /\ last' = said("ran", -1)
                       /\ items' = r.items
                       /\ runs' = runs + 1
                       /\ dry' = d
                       /\ had_errors' = FALSE
                       /\ backup' = None
                       /\ out' = <<>>
                       /\ idx' = 1
                       /\ pc' = IF r.items = <<>> THEN "end" ELSE "classify"
                       /\ fs0' = fs
                       /\ hist' = <<>>
                       /\ muts' = 0
                       /\ UNCHANGED <<fs, clock, mode, exitcode, prev, past>>
    /\ UNCHANGED valVars

ResolveNext ==
    \/ \E inv \in Invocations, d, y, a \in BOOLEAN :
           LinkTargets(inv[1], inv[2], d, y, a)
    \/ Classify
    \/ \E t \in 1..MaxClock : RemoveTarget(t)
    \/ EnsureParentDir
    \/ CreateLink
    \/ LinkItemsEnd
    \/ Propagate

ResolveSpec == ResolveInit /\ [][ResolveNext]_vars

----------------------------------------------------------------------------
(* remove_target called on its own: any target, policy and dry_run, on any  *)
(* of the initial filesystems.                                              *)

RemoveTargetInit ==
    /\ \E r \in RepoChoices, h \in HomeChoices, o \in OtherChoices :
           fs = MkFs(r, h, o)
    /\ clock = 1
    /\ \E key \in {KeyD, KeyDF} : items = <<key>>
    /\ mode \in Modes
    /\ dry \in BOOLEAN
    /\ pc = "call"
    /\ idx = 1
    /\ had_errors = FALSE
    /\ backup = None
    /\ out = <<>>
    /\ exitcode = -1
    /\ runs = 0
    /\ fs0 = fs
    /\ hist = <<>>
    /\ prev = NoPrev
    /\ muts = 0
    /\ gate = NoGate
    /\ last = NoCommand
    /\ past = NoPast
    /\ ValidatorOff

\* remove_target(item.target, mode, dry_run) at second t.
CallRemoveTarget(t) ==
    /\ pc = "call"
    /\ t >= clock
    /\ clock' = t
    /\ LET r == remove_target(fs, Target(Item), mode, dry, t)
       IN /\ fs' = r.fs
          /\ backup' = r.ret
          /\ out' = IF dry /\ r.what \in {"mv", "rm"}
                    THEN Append(out, Line("DRYRUN", Item, r.what, r.ret))
                    ELSE out
          /\ last' = [cmd |-> "remove_target", why |-> r.what,
                      code |-> IF r.what = "exit2" THEN 2
                               ELSE IF r.what = "oserror" THEN 1 ELSE 0]
    /\ pc' = "returned"
    /\ UNCHANGED <<items, mode, dry, idx, had_errors, exitcode, runs, fs0, hist,
                   prev, muts, gate, past, valVars>>

RemoveTargetNext == \E t \in 1..MaxClock : CallRemoveTarget(t)

RemoveTargetSpec == RemoveTargetInit /\ [][RemoveTargetNext]_vars

----------------------------------------------------------------------------
(* Vocabulary of the properties *)

InRun == pc # "idle"

\* The entry classified last, and whether link_items is done with it.
Cur == hist[Len(hist)]
Finished == hist # <<>> /\ pc \in {"classify", "end"}
LastLine == out[Len(out)]

\* The run that has ended, or is under way, has not been followed by a user action.
Direct == InRun \/ prev.direct

\* A run of link_items has ended and nothing has happened since.
Ended == pc = "idle" /\ runs >= 1 /\ prev.direct

RealDir(f, p) == Exists(f, p) /\ IsDir(f, p) /\ ~IsSymlink(f, p)
PlainFile(f, p) == LET w == Lstat(f, p) IN w.err = "" /\ f[w.phys].k = "file"
Occupied(f, p) == (Exists(f, p) \/ IsSymlink(f, p)) /\ ~RealDir(f, p)
SourceThere(f, key) == Exists(f, Source(key)) \/ IsSymlink(f, Source(key))
NodeAt(f, p) == f[Lstat(f, p).phys]
HasLine(tag, key) == \E i \in 1..Len(out) : out[i].tag = tag /\ out[i].key = key

----------------------------------------------------------------------------
(* C1.  Dry-run purity: while a dry run is under way and after it has       *)
(* ended, the filesystem is the one the run started from, no system call    *)
(* has changed it, and status_of of every entry of the batch is unchanged.  *)
DryRunPure ==
    (runs >= 1 /\ dry /\ Direct) =>
        /\ fs = fs0
        /\ muts = 0
        /\ \A i \in 1..Len(items) : status_of(fs, items[i]) = status_of(fs0, items[i])

\* A dry run has ended that announced a rename and a link.
DryRunPureWitness ==
    /\ pc = "idle" /\ runs >= 1 /\ dry /\ prev.direct
    /\ \E i, j \in 1..Len(out) :
           /\ out[i].tag = "DRYRUN" /\ out[i].what = "mv"
           /\ out[j].tag = "DRYRUN" /\ out[j].what = "ln"

(* C2, as claimed.  Under safe, an entry whose target is occupied by a      *)
(* file or a link and is not classified linked is left unchanged and        *)
(* reported with SKIP.                                                      *)
SafeSkipsOccupied ==
    (mode = "safe" /\ Finished /\ Occupied(Cur.pre, Target(Cur.key))
        /\ Cur.st # "linked") =>
        /\ fs = Cur.pre
        /\ LastLine.tag = "SKIP" /\ LastLine.key = Cur.key

(* C2, amended.  Under safe such an entry is handled without any system     *)
(* call and the filesystem is unchanged; its line is SKIP when its source   *)
(* is present and ERROR when its source is missing; it gets no BACKUP and   *)
(* no LINKED line.  Over the whole run safe changes no node that existed    *)
(* and adds only parent directories and links for entries classified        *)
(* absent.                                                                  *)
SafeLeavesOccupied ==
    mode = "safe" =>
        /\ (hist # <<>> /\ InRun /\ Occupied(Cur.pre, Target(Cur.key))
                /\ Cur.st # "linked") =>
               /\ pc \in {"classify", "end"}
               /\ fs = Cur.pre
               /\ LastLine.key = Cur.key
               /\ LastLine.tag = IF SourceThere(Cur.pre, Cur.key) THEN "SKIP" ELSE "ERROR"
               /\ ~HasLine("BACKUP", Cur.key) /\ ~HasLine("LINKED", Cur.key)
        /\ (pc \in {"remove", "mkdir", "symlink"}) => Cur.st = "absent"
        /\ (runs >= 1 /\ Direct) =>
               /\ \A p \in DOMAIN fs0 : p \in DOMAIN fs /\ fs[p] = fs0[p]
               /\ \A p \in (DOMAIN fs) \ (DOMAIN fs0) :
                      \/ fs[p] = Dir
                      \/ \E i \in 1..Len(hist) :
                             /\ hist[i].st = "absent"
                             /\ fs[p] = Link(Source(hist[i].key))

\* Safe has skipped an entry whose target is a link that points elsewhere,
\* after it linked another entry of the batch.
SafeLeavesOccupiedWitness ==
    /\ mode = "safe" /\ ~dry /\ Finished
    /\ Cur.st = "linked-elsewhere"
    /\ LastLine.tag = "SKIP"
    /\ \E i \in 1..Len(out) : out[i].tag = "LINKED"

\* Path p is path d or lies below it.
Under(p, d) == Len(p) >= Len(d) /\ SubSeq(p, 1, Len(d)) = d

\* The entries classified in this run whose target was a real directory.
GuardedEntries == {i \in 1..Len(hist) : RealDir(hist[i].pre, Target(hist[i].key))}

\* Nothing at or below d differs between the filesystems f and g.
SameBelow(f, g, d) ==
    \A p \in (DOMAIN f) \cup (DOMAIN g) :
        Under(p, d) => (p \in DOMAIN f /\ p \in DOMAIN g /\ f[p] = g[p])

(* C3, as claimed.  An entry whose target is a real directory gets an       *)
(* ERROR line and makes the run fail, and during the run and after it the   *)
(* directory and everything inside it are as they were when the entry was   *)
(* classified.                                                              *)
DirectoryLeftUntouched ==
    (runs >= 1 /\ Direct) =>
        \A i \in GuardedEntries :
            /\ HasLine("ERROR", hist[i].key)
            /\ pc = "idle" => exitcode # 0
            /\ SameBelow(hist[i].pre, fs, Lstat(hist[i].pre, Target(hist[i].key)).phys)

(* C3, amended.  An entry whose target is a real directory is handled       *)
(* without any system call, under every policy and in a dry run too: the    *)
(* filesystem is unchanged while it is processed, its line is ERROR,        *)
(* had_errors is set, and the run that reported it ends with a non-zero     *)
(* status.  To the end of the run the directory stays a real directory,     *)
(* and what is inside it differs from what was there only if another entry  *)
(* of the batch whose target lies inside the directory has been processed   *)
(* since with a status other than an entry error (and skipped neither as    *)
(* linked nor under safe as occupied), outside a dry run.                   *)
DirectoryGuard ==
    /\ (hist # <<>> /\ InRun /\ RealDir(Cur.pre, Target(Cur.key))) =>
           /\ pc \in {"classify", "end"}
           /\ fs = Cur.pre
           /\ LastLine.tag = "ERROR" /\ LastLine.key = Cur.key
           /\ had_errors
    /\ (pc = "idle" /\ runs >= 1 /\ prev.direct /\ GuardedEntries # {}) =>
           exitcode # 0
    /\ (runs >= 1 /\ Direct) =>
           \A i \in GuardedEntries :
               LET d == Lstat(hist[i].pre, Target(hist[i].key)).phys
               IN /\ HasLine("ERROR", hist[i].key)
                  /\ RealDir(fs, Target(hist[i].key))
                  /\ \/ SameBelow(hist[i].pre, fs, d)
                     \/ /\ ~dry
                        /\ \E j \in (i + 1)..Len(hist) :
                               /\ Under(Target(hist[j].key), d)
                               /\ hist[j].key # hist[i].key
                               /\ decide(hist[j].pre, hist[j].key, hist[j].st, mode)
                                      \in {"remove", "create"}

\* A forced run reported a directory at the target of an entry, replaced a
\* file inside that directory for another entry of the batch, and ended.
DirectoryGuardWitness ==
    /\ pc = "idle" /\ runs >= 1 /\ prev.direct /\ mode = "force" /\ ~dry
    /\ \E i \in GuardedEntries :
           /\ hist[i].st = "target-dir"
           /\ RealDir(fs, Target(hist[i].key))
           /\ ~SameBelow(hist[i].pre, fs, Target(hist[i].key))

(* C4.  Under safe and backup every file and link that existed when the     *)
(* run started is, at every state of the run and after it, either where it  *)
(* was, or at the backup path of that place, named in a BACKUP line.        *)
Kept(p) ==
    \/ p \in DOMAIN fs /\ fs[p] = fs0[p]
    \/ \E i \in 1..Len(out), t \in 1..MaxClock :
           LET b == Append(Parent(p), Name(p) \o ".bak." \o Stamp(t))
           IN /\ out[i].tag = "BACKUP" /\ Name(out[i].path) = Name(b)
              /\ b \in DOMAIN fs /\ fs[b] = fs0[p]

NoDataLost ==
    (mode \in {"safe", "backup"} /\ runs >= 1 /\ Direct) =>
        \A p \in DOMAIN fs0 : fs0[p].k \in {"file", "link"} => Kept(p)

(* C5.  Idempotence: a run that is not a dry run and directly follows       *)
(* another one of the same batch and policy changes nothing.                *)
SecondRunNoop ==
    (runs >= 2 /\ InRun /\ ~dry /\ ~prev.dry /\ prev.direct) =>
        fs = fs0 /\ muts = 0

\* The entries classified in this run whose source was present and whose
\* target was a regular file.
FileEntries ==
    {i \in 1..Len(hist) : /\ SourceThere(hist[i].pre, hist[i].key)
                          /\ PlainFile(hist[i].pre, Target(hist[i].key))}

\* The target of the entry is a symbolic link whose destination is its source.
LinkedToSource(key) ==
    IsSymlink(fs, Target(key)) /\ NodeAt(fs, Target(key)) = Link(Source(key))

(* C6.  Backup policy: after a real run under backup, for every entry with  *)
(* a present source whose target was a regular file, the file is, with its  *)
(* content, at a sibling <name>.bak.<stamp> of the target, a BACKUP line    *)
(* with that path comes before the LINKED line of the entry, and the        *)
(* target is a symbolic link whose destination is the source.               *)
BackupKeepsFile ==
    (Ended /\ ~dry /\ mode = "backup") =>
        \A i \in FileEntries :
            LET key == hist[i].key
            IN \E t \in 1..MaxClock :
                   LET b == Append(Parent(Target(key)),
                                   Name(Target(key)) \o ".bak." \o Stamp(t))
                   IN /\ PlainFile(fs, b)
                      /\ NodeAt(fs, b) = NodeAt(hist[i].pre, Target(key))
                      /\ \E m, n \in 1..Len(out) :
                             /\ m < n
                             /\ out[m] = Line("BACKUP", key, "", b)
                             /\ out[n] = Line("LINKED", key, "", None)
                      /\ LinkedToSource(key)

\* What holds of such an entry at the moment its LINKED line is written.
BackupKeepsFileWhenLinked ==
    (mode = "backup" /\ ~dry /\ hist # <<>> /\ InRun
        /\ SourceThere(Cur.pre, Cur.key) /\ PlainFile(Cur.pre, Target(Cur.key))) =>
        /\ pc \in {"remove", "mkdir", "symlink", "classify", "end"}
        /\ Finished =>
               \E t \in 1..MaxClock :
                   LET b == Append(Parent(Target(Cur.key)),
                                   Name(Target(Cur.key)) \o ".bak." \o Stamp(t))
                   IN /\ PlainFile(fs, b)
                      /\ NodeAt(fs, b) = NodeAt(Cur.pre, Target(Cur.key))
                      /\ Len(out) >= 2
                      /\ out[Len(out) - 1] = Line("BACKUP", Cur.key, "", b)
                      /\ LastLine = Line("LINKED", Cur.key, "", None)
                      /\ LinkedToSource(Cur.key)

(* C7.  Force policy: after a real run under force, for every entry with a  *)
(* present source whose target was a regular file, the target is a          *)
(* symbolic link whose destination is the source, the file is no longer     *)
(* where it was, the entry has no BACKUP line and no copy of the file has   *)
(* appeared at a path that did not exist.                                   *)
ForceReplacesFile ==
    (Ended /\ ~dry /\ mode = "force") =>
        \A i \in FileEntries :
            LET key == hist[i].key
                was == Lstat(hist[i].pre, Target(key)).phys
            IN /\ LinkedToSource(key)
               /\ was \in DOMAIN fs => fs[was].k # "file"
               /\ ~HasLine("BACKUP", key)
               /\ \A p \in (DOMAIN fs) \ (DOMAIN hist[i].pre) : fs[p].k # "file"

\* What holds of such an entry at the moment its LINKED line is written.
ForceReplacesFileWhenLinked ==
    (mode = "force" /\ ~dry /\ hist # <<>> /\ InRun
        /\ SourceThere(Cur.pre, Cur.key) /\ PlainFile(Cur.pre, Target(Cur.key))) =>
        /\ pc \in {"remove", "mkdir", "symlink", "classify", "end"}
        /\ ~HasLine("BACKUP", Cur.key)
        /\ Finished =>
               /\ fs = With(Cur.pre, Lstat(Cur.pre, Target(Cur.key)).phys,
                            Link(Source(Cur.key)))
               /\ IsSymlink(fs, Target(Cur.key))
               /\ LastLine = Line("LINKED", Cur.key, "", None)

(* C8.  An entry whose source path holds nothing (neither exists nor is a   *)
(* symbolic link) is classified missing-source whatever its target is; it   *)
(* is handled without any system call, gets an ERROR line and sets          *)
(* had_errors, and link_items goes on with the next entry, if there is one. *)
MissingSourceError ==
    (hist # <<>> /\ InRun
        /\ ~Exists(Cur.pre, Source(Cur.key)) /\ ~IsSymlink(Cur.pre, Source(Cur.key))) =>
        /\ Cur.st = "missing-source"
        /\ pc = IF Len(hist) < Len(items) THEN "classify" ELSE "end"
        /\ idx = Len(hist) + 1
        /\ fs = Cur.pre
        /\ LastLine = Line("ERROR", Cur.key, "source missing", None)
        /\ had_errors

\* Under force, the first of two entries had no source while its target was
\* a file, and the second one has been classified.
MissingSourceErrorWitness ==
    /\ mode = "force" /\ ~dry /\ InRun /\ Len(hist) = 2
    /\ hist[1].st = "missing-source"
    /\ PlainFile(hist[1].pre, Target(hist[1].key))
    /\ PlainFile(fs, Target(hist[1].key))

(* C9, as claimed.  An entry whose target is a symbolic link that resolves  *)
(* to the path the source resolves to is classified linked, handled         *)
(* without any system call and reported with SKIP.                          *)
ResolvesAlike(f, key) ==
    IsSymlink(f, Target(key)) /\ Resolve(f, Target(key)) = Resolve(f, Source(key))

LinkedIsSkipped ==
    (hist # <<>> /\ InRun /\ ResolvesAlike(Cur.pre, Cur.key)) =>
        /\ Cur.st = "linked"
        /\ pc \in {"classify", "end"}
        /\ fs = Cur.pre
        /\ LastLine = Line("SKIP", Cur.key, "already linked", None)

(* C9, amended.  Such an entry is handled without any system call under     *)
(* every policy; when its source is present it is classified linked and     *)
(* reported with SKIP, and when its source is missing it is classified      *)
(* missing-source and reported with ERROR.                                  *)
LinkedIsLeftAlone ==
    (hist # <<>> /\ InRun /\ ResolvesAlike(Cur.pre, Cur.key)) =>
        /\ pc \in {"classify", "end"}
        /\ fs = Cur.pre
        /\ IF SourceThere(Cur.pre, Cur.key)
           THEN /\ Cur.st = "linked"
                /\ LastLine = Line("SKIP", Cur.key, "already linked", None)
           ELSE /\ Cur.st = "missing-source"
                /\ LastLine.tag = "ERROR" /\ LastLine.key = Cur.key

\* A forced run has skipped an entry that was linked already.
LinkedIsLeftAloneWitness ==
    /\ mode = "force" /\ ~dry /\ Finished
    /\ Cur.st = "linked"
    /\ NodeAt(fs, Target(Cur.key)) = Link(Source(Cur.key))
    /\ LastLine.tag = "SKIP"

(* C10.  status_of is the stated decision list, first match first, names    *)
(* one of the seven statuses in every filesystem state, and changes         *)
(* nothing: classifying an entry leaves the filesystem as it is.            *)
Statuses ==
    {"missing-source", "linked", "broken-link", "linked-elsewhere", "exists",
     "target-dir", "absent"}

DecisionList(f, key) ==
    LET src == Source(key)
        tgt == Target(key)
        rules ==
            << <<~(Exists(f, src) \/ IsSymlink(f, src)), "missing-source">>,
               <<IsSymlink(f, tgt) /\ Resolve(f, tgt) = Resolve(f, src), "linked">>,
               <<IsSymlink(f, tgt) /\ ~Exists(f, Resolve(f, tgt)), "broken-link">>,
               <<IsSymlink(f, tgt), "linked-elsewhere">>,
               <<Exists(f, tgt) /\ IsDir(f, tgt), "target-dir">>,
               <<Exists(f, tgt), "exists">>,
               <<TRUE, "absent">> >>
        first == CHOOSE i \in 1..Len(rules) :
                     rules[i][1] /\ \A j \in 1..(i - 1) : ~rules[j][1]
    IN rules[first][2]

StatusDecided ==
    /\ \A i \in 1..Len(Registry) :
           /\ status_of(fs, Registry[i]) = DecisionList(fs, Registry[i])
           /\ status_of(fs, Registry[i]) \in Statuses
    /\ \A i \in 1..Len(hist) : hist[i].st = DecisionList(hist[i].pre, hist[i].key)

StatusOfIsDecisionList ==
    []StatusDecided /\ [][pc = "classify" => fs' = fs]_vars

\* An entry has been classified linked whose target and source are both
\* dangling: the first matching rule, not broken-link.
StatusOfIsDecisionListWitness ==
    /\ hist # <<>>
    /\ Cur.st = "linked"
    /\ ~Exists(Cur.pre, Target(Cur.key))
    /\ pc = "end"

----------------------------------------------------------------------------
(* Vocabulary of the run-level properties *)


EntryErrors == {"missing-source", "target-dir"}
Replaceable == {"exists", "linked-elsewhere", "broken-link"}

\* The lines that close the processing of an entry.
Outcomes == {"ERROR", "SKIP", "LINKED"}
HasOutcome(key) ==
    \E i \in 1..Len(out) :
        /\ out[i].key = key
        /\ \/ out[i].tag \in Outcomes
           \/ out[i].tag = "DRYRUN" /\ out[i].what = ""

(* C11.  A per-entry error does not end the batch: an entry classified      *)
(* missing-source or target-dir is followed by the next entry of the batch; *)
(* a run in which such an entry occurred has classified every entry and     *)
(* closed each with ERROR, SKIP or LINKED; and a run ends with a non-zero   *)
(* status exactly if one of its entries was classified so.                  *)
EntryErrorsDoNotAbort ==
    /\ (hist # <<>> /\ InRun /\ Cur.st \in EntryErrors) =>
           /\ pc = IF Len(hist) < Len(items) THEN "classify" ELSE "end"
           /\ idx = Len(hist) + 1
    /\ Ended =>
           /\ (\E i \in 1..Len(hist) : hist[i].st \in EntryErrors) =>
                  /\ Len(hist) = Len(items)
                  /\ \A i \in 1..Len(items) : HasOutcome(items[i])
           /\ (exitcode # 0) <=> (\E i \in 1..Len(hist) : hist[i].st \in EntryErrors)

(* C12.  After a run that is not a dry run, every entry that was classified *)
(* absent, or, under backup or force, exists, linked-elsewhere or           *)
(* broken-link, is classified linked: its target is a symbolic link to the  *)
(* source, below a parent directory that exists.                            *)
Relinked(key) ==
    /\ status_of(fs, key) = "linked"
    /\ IsSymlink(fs, Target(key))
    /\ NodeAt(fs, Target(key)) = Link(Source(key))
    /\ Exists(fs, Parent(Target(key)))

AllBecomeLinked ==
    (Ended /\ ~dry) =>
        \A i \in 1..Len(hist) :
            (\/ hist[i].st = "absent"
             \/ mode \in {"backup", "force"} /\ hist[i].st \in Replaceable)
            => Relinked(hist[i].key)

(* C13.  A system call that fails for an entry is an error of that entry:   *)
(* link_items does not end with the status of an uncaught exception, every  *)
(* entry of the batch has been classified when it ends, and each has its    *)
(* closing line.                                                            *)
FailedMutationIsEntryError ==
    /\ pc # "raised"
    /\ Ended =>
           /\ exitcode \in {0, 2}
           /\ Len(hist) = Len(items)
           /\ \A i \in 1..Len(items) : HasOutcome(items[i])

\* The commands that reconcile the links: cli.link and the wizard.
Reconciles == last.cmd \in {"link", "wizard"}

CommandOver == pc = "idle" /\ last.cmd # "none"

(* C19.  Exit status: a command that ran link_items ends with status 0      *)
(* exactly if no entry was classified missing-source or target-dir, and     *)
(* verify ends with status 0 exactly if it counted no failure; status 2 is  *)
(* only given by a reconciliation (bad invocation, entry errors) and status *)
(* 1 only by verify, so that the status alone tells the two kinds apart.    *)

ExitStatusContract ==
    CommandOver =>
        /\ last.code \in {0, 1, 2}
        /\ last.code = 2 => Reconciles
        /\ last.code = 1 => last.cmd = "verify"
        /\ (Reconciles /\ last.why = "ran") =>
               ((last.code = 0) <=> (\A i \in 1..Len(hist) : hist[i].st \notin EntryErrors))
        /\ last.cmd = "verify" => ((last.code = 0) <=> (last.why = "clean"))

(* C20.  Confirmation gate: the link command runs link_items under backup  *)
(* or force outside a dry run only if --yes was given or the prompt was     *)
(* answered with yes;                                                       *)
(* the prompt is shown only for backup or force outside a dry run and       *)
(* without --yes, so safe and dry runs start unasked; and the step of a     *)
(* declined confirmation ends the command with status 1 and leaves the      *)
(* filesystem, the entries classified and the position of link_items as     *)
(* they were.                                                               *)
GateHeld ==
    /\ (InRun /\ last.cmd = "link" /\ mode \in {"backup", "force"} /\ ~dry) =>
           (gate.yes \/ (gate.asked /\ gate.answer))
    /\ InRun => (last.why = "ran" /\ gate.dry = dry)
    /\ gate.asked => (mode \in {"backup", "force"} /\ ~gate.dry /\ ~gate.yes)
    /\ (last.cmd = "link" /\ last.why = "declined") =>
           (gate.asked /\ ~gate.answer /\ pc = "idle")

ConfirmationGate ==
    /\ []GateHeld
    /\ [][(last' # last /\ last'.cmd = "link" /\ last'.why = "declined") =>
             /\ last'.code = 1
             /\ pc = "idle" /\ pc' = "idle"
             /\ fs' = fs /\ hist' = hist /\ runs' = runs /\ muts' = muts /\ out' = out]_vars
    /\ [][(pc = "idle" /\ pc' # "idle" /\ last'.cmd = "link") =>
             (gate'.dry \/ gate'.yes \/ mode = "safe" \/ gate'.answer)]_vars

\* Under force, a run that was confirmed at the prompt has changed the
\* filesystem.
ConfirmationGateWitness ==
    /\ last.cmd = "link"
    /\ mode = "force" /\ InRun /\ ~dry
    /\ gate.asked /\ gate.answer /\ ~gate.yes
    /\ muts > 0

----------------------------------------------------------------------------
(* Vocabulary of the validator properties *)

\* validate_deps_schema has run on the document.
DepsValidated == vpc = "done" /\ schema.array_key = "checks"

\* The elements of the checks array, when the document has one.
Checks ==
    IF IsDict(data) /\ Has(data, "checks") /\ IsList(Get(data, "checks"))
    THEN Get(data, "checks").l
    ELSE <<>>

(* The document is typed as the graph is defined for: checks is an array,   *)
(* and in each element that is an object a label, if present, is a string   *)
(* and depends, if present, is a list of strings.                           *)
WellTypedCheck(x) ==
    IsDict(x) =>
        /\ Has(x, "label") => IsStr(Get(x, "label"))
        /\ Has(x, "depends") =>
               /\ IsList(Get(x, "depends"))
               /\ \A j \in 1..Len(Get(x, "depends").l) : IsStr(Get(x, "depends").l[j])

WellTyped ==
    /\ IsDict(data) /\ Has(data, "checks") /\ IsList(Get(data, "checks"))
    /\ \A i \in 1..Len(Checks) : WellTypedCheck(Checks[i])

\* The names check i depends on, and the declared labels.
DependsOn(i) ==
    IF IsDict(Checks[i]) /\ Has(Checks[i], "depends")
    THEN {Get(Checks[i], "depends").l[j].v : j \in 1..Len(Get(Checks[i], "depends").l)}
    ELSE {}

Declares(i, name) ==
    IsDict(Checks[i]) /\ Has(Checks[i], "label") /\ Get(Checks[i], "label").v = name

Declared == {name \in {LabelName(k) : k \in 1..Len(Checks)} \cup {"missing"} :
                \E i \in 1..Len(Checks) : Declares(i, name)}

\* dep -> label: a check labelled label depends on the declared label dep.
DependsEdge(dep, label) ==
    /\ dep \in Declared
    /\ \E i \in 1..Len(Checks) : Declares(i, label) /\ dep \in DependsOn(i)

\* The pairs joined by a path of at most n edges.
RECURSIVE Paths(_)
Paths(n) ==
    IF n <= 1 THEN {e \in Declared \X Declared : DependsEdge(e[1], e[2])}
    ELSE LET P == Paths(n - 1)
         IN P \cup {e \in Declared \X Declared :
                       \E m \in Declared : <<e[1], m>> \in P /\ DependsEdge(m, e[2])}

Reaches(a, b) == <<a, b>> \in Paths(Cardinality(Declared))
OnCycle(label) == Reaches(label, label)
HasCycle == \E label \in Declared : OnCycle(label)

\* label lies on a cycle or depends, through other labels, on one that does.
Blocked(label) == \E c \in Declared : OnCycle(c) /\ (c = label \/ Reaches(c, label))

CyclePrefix == "dependency cycle detected among: "
IsCycleError(e) ==
    Len(e.text) >= Len(CyclePrefix) /\ SubSeq(e.text, 1, Len(CyclePrefix)) = CyclePrefix
CycleErrors == SelectSeq(report.errors, IsCycleError)

UnknownText(i, dep) ==
    "checks[" \o ToString(i - 1) \o "].depends: unknown label '" \o dep \o "'"
IsUnknownError(e) == \E i \in 1..Len(Checks) : \E dep \in DependsOn(i) : e.text = UnknownText(i, dep)

(* C14.  For a well-typed document the dependency validator returns, and    *)
(* its list has a dependency-cycle error exactly if the graph of the        *)
(* depends edges between declared labels has a directed cycle, a check      *)
(* that depends on itself included; the list never has two cycle errors;    *)
(* and for an acyclic graph whose depends name declared labels only it has  *)
(* neither a cycle error nor an unknown-label error.                        *)
CycleReportedIffCyclic ==
    (DepsValidated /\ WellTyped) =>
        /\ report.raised = ""
        /\ (CycleErrors # <<>>) <=> HasCycle
        /\ Len(CycleErrors) <= 1
        /\ (~HasCycle /\ \A i \in 1..Len(Checks) : DependsOn(i) \subseteq Declared) =>
               \A k \in 1..Len(report.errors) :
                   /\ report.errors[k].id \notin {"cycle", "unknown-label"}
                   /\ ~IsCycleError(report.errors[k])
                   /\ ~IsUnknownError(report.errors[k])

\* A check that depends on itself, beside other checks, was reported as a cycle.
CycleReportedIffCyclicWitness ==
    /\ DepsValidated /\ WellTyped
    /\ Len(Checks) >= 2
    /\ \E label \in Declared : DependsEdge(label, label)
    /\ Len(CycleErrors) = 1

\* The entries of the depends list of check i, in the order of the file.
DependsList(i) ==
    IF IsDict(Checks[i]) /\ Has(Checks[i], "depends")
    THEN [j \in 1..Len(Get(Checks[i], "depends").l) |-> Get(Checks[i], "depends").l[j].v]
    ELSE <<>>

\* Every name of the document: the declared labels and the names depended on.
Names == Declared \cup UNION {DependsOn(i) : i \in 1..Len(Checks)}

IsUnknownLabelError(e) ==
    \E i \in 1..Len(Checks) : \E name \in Names : e.text = UnknownText(i, name)

\* One message per undeclared entry, check by check and entry by entry.
ExpectedUnknown ==
    Concat([i \in 1..Len(Checks) |->
        LET undeclared == SelectSeq(DependsList(i), LAMBDA d : d \notin Declared)
        IN [j \in 1..Len(undeclared) |-> UnknownText(i, undeclared[j])]])

(* C15.  For a well-typed document the validator returns one error          *)
(* "checks[i].depends: unknown label 'd'" for each check at position i and   *)
(* each entry d of its depends list that is not a declared label, and no    *)
(* other unknown-label error; and when no depends entry names a declared    *)
(* label, so that undeclared names are all the dependencies there are, the  *)
(* list has no cycle error.                                                 *)
UnknownLabelsReported ==
    (DepsValidated /\ WellTyped) =>
        /\ report.raised = ""
        /\ LET unknown == SelectSeq(report.errors, IsUnknownLabelError)
           IN [k \in 1..Len(unknown) |-> unknown[k].text] = ExpectedUnknown
        /\ (\A i \in 1..Len(Checks) : DependsOn(i) \cap Declared = {}) =>
               CycleErrors = <<>>

\* The single check a that depends on "missing": one error, and it is the
\* unknown-label error of position 0.
UnknownLabelsReportedWitness ==
    /\ DepsValidated
    /\ data = DepsDoc(<<Check("a", <<JStr("missing")>>)>>)
    /\ report = Returned(<<Err("unknown-label", "checks[0].depends: unknown label 'missing'")>>)

\* The names of S from the least to the greatest.
RECURSIVE InOrder(_)
InOrder(S) ==
    IF S = {} THEN <<>>
    ELSE LET least == CHOOSE x \in S : \A y \in S \ {x} : StrLess(x, y)
         IN <<least>> \o InOrder(S \ {least})

BlockedLabels == {label \in Declared : Blocked(label)}

(* C16.  When the graph of a well-typed document has a cycle, the list has  *)
(* one cycle error, and it names, from the least to the greatest and        *)
(* separated by ", ", exactly the labels that lie on a cycle or depend      *)
(* transitively on a label that does: every label of every cycle is named   *)
(* and no label that Kahn's algorithm visited is.                           *)
CycleMembersListed ==
    (DepsValidated /\ WellTyped /\ HasCycle) =>
        /\ Len(CycleErrors) = 1
        /\ CycleErrors[1].text = CyclePrefix \o Join(InOrder(BlockedLabels), ", ")
        /\ CycleErrors[1] = report.errors[Len(report.errors)]

\* Three checks declared from the greatest label to the least: one lies on
\* a cycle, one only depends on it, one is visited.
CycleMembersListedWitness ==
    /\ DepsValidated /\ WellTyped
    /\ Len(Checks) = 3
    /\ \A i \in 1..3 : Declares(i, LabelName(4 - i))
    /\ \E label \in Declared : Blocked(label) /\ ~OnCycle(label)
    /\ \E label \in Declared : ~Blocked(label)
    /\ Len(CycleErrors) = 1

HasError(text) == \E k \in 1..Len(report.errors) : report.errors[k].text = text

\* What the elements of the array owe the list, element by element.
ElementsEnumerated ==
    \A i \in 1..Len(Checks) :
        LET where == "checks[" \o ToString(i - 1) \o "]"
        IN /\ ~IsDict(Checks[i]) => HasError(where \o ": must be an object")
           /\ IsDict(Checks[i]) =>
                  /\ \A f \in {"label", "kind"} :
                         ~Has(Checks[i], f) => HasError(where \o ": missing required field: " \o f)
                  /\ WellTypedCheck(Checks[i]) =>
                         \A d \in DependsOn(i) \ Declared : HasError(UnknownText(i, d))

(* C17.  Configuration errors are always fully enumerated: whatever the     *)
(* document, malformed ones included, validate_deps_schema returns a list   *)
(* and raises nothing; the list names every element that is not an object,  *)
(* every required field an element lacks and every undeclared name an       *)
(* element depends on, whatever is wrong with the other elements.           *)
ConfigErrorsFullyEnumerated ==
    DepsValidated =>
        /\ report.raised = ""
        /\ ElementsEnumerated

\* Either validator has run and has returned its list.
HasReturned == vpc = "done" /\ report.raised = ""

\* The elements of the validated array, and the escape list of the validator.
Elements ==
    IF IsDict(data) /\ Has(data, schema.array_key) /\ IsList(Get(data, schema.array_key))
    THEN Get(data, schema.array_key).l
    ELSE <<>>

EscapeList == IF schema.array_key = "defaults" THEN {"value"} ELSE {}

\* The value is of the JSON type the schema declares ("" declares none).
Matches(val, type) ==
    CASE type = "string" -> IsStr(val)
      [] type = "array" -> IsList(val)
      [] OTHER -> TRUE

\* An error of the field that says what the value must be ("must be a string").
HasTypeError(i, name) ==
    LET start == schema.array_key \o "[" \o ToString(i - 1) \o "]." \o name \o ": must be a"
    IN \E k \in 1..Len(report.errors) :
           /\ Len(report.errors[k].text) >= Len(start)
           /\ SubSeq(report.errors[k].text, 1, Len(start)) = start

HasEnumError(i, p, val) ==
    HasError(schema.array_key \o "[" \o ToString(i - 1) \o "]." \o p.name
             \o ": must be one of ["
             \o Join([j \in 1..Len(p.enum) |-> "'" \o p.enum[j] \o "'"], ", ")
             \o "], got '" \o PyStr(val) \o "'")

(* C18.  In the list a validator returns, every field present in an         *)
(* element whose value is not of the type the schema declares for it has a  *)
(* type error, unless the field is on the escape list; and every field      *)
(* with an enumerated domain whose value is outside the domain has an       *)
(* error that names the value.                                              *)
TypesAndEnumsChecked ==
    HasReturned =>
        \A i \in 1..Len(Elements) :
            IsDict(Elements[i]) =>
                \A j \in 1..Len(schema.items.properties) :
                    LET p == schema.items.properties[j]
                    IN Has(Elements[i], p.name) =>
                           LET val == Get(Elements[i], p.name)
                           IN /\ (p.name \notin EscapeList /\ ~Matches(val, p.type)) =>
                                     HasTypeError(i, p.name)
                              /\ (p.enum # <<>> /\ ~InEnum(val, p.enum)) =>
                                     HasEnumError(i, p, val)

----------------------------------------------------------------------------
(* Properties of the sources and of the backups *)

(* C28.  link_items never deletes, renames or replaces the source of an     *)
(* entry of its batch: what is at the source path when the run starts is    *)
(* there, in the same place and unchanged, at every state of the run and    *)
(* when it has ended.                                                       *)
SourcesUntouched ==
    (runs >= 1 /\ Direct) =>
        \A i \in 1..Len(items) :
            LET before == Lstat(fs0, Source(items[i]))
                now == Lstat(fs, Source(items[i]))
            IN before.err = "" =>
                   /\ now.err = ""
                   /\ now.phys = before.phys
                   /\ fs[now.phys] = fs0[before.phys]

(* C29.  Under backup the rename to the backup path overwrites nothing:     *)
(* the step of remove_target that moves the target away leaves every other  *)
(* node of the filesystem, an earlier backup included, where it was and as  *)
(* it was.                                                                  *)
BackupNeverOverwrites ==
    [][(pc = "remove" /\ mode = "backup" /\ fs' # fs) =>
          \A p \in DOMAIN fs :
              \/ p = Lstat(fs, Target(Item)).phys
              \/ p \in DOMAIN fs' /\ fs'[p] = fs[p]]_vars

Digits == {"0", "1", "2", "3", "4", "5", "6", "7", "8", "9"}
AllDigits(str) == \A i \in 1..Len(str) : SubSeq(str, i, i) \in Digits

\* The paths the run has named as backups: BACKUP lines, and "mv" lines of a dry run.
BackupLines ==
    {i \in 1..Len(out) : \/ out[i].tag = "BACKUP"
                         \/ out[i].tag = "DRYRUN" /\ out[i].what = "mv"}

\* What follows "<name>.bak." in the name of the backup of line i.
Suffix(i) ==
    LET name == Name(out[i].path)
        lead == Name(Target(out[i].key)) \o ".bak."
    IN SubSeq(name, Len(lead) + 1, Len(name))

IsBackupOfTarget(i) ==
    LET name == Name(out[i].path)
        lead == Name(Target(out[i].key)) \o ".bak."
    IN /\ Parent(out[i].path) = Parent(Target(out[i].key))
       /\ Len(name) > Len(lead)
       /\ SubSeq(name, 1, Len(lead)) = lead

(* C26 as stated.  The backup path is a sibling of the target named         *)
(* <original-name>.bak.<timestamp>, and the timestamp consists of exactly   *)
(* 14 digits.                                                               *)
BackupSuffixFourteenDigits ==
    \A i \in BackupLines :
        /\ IsBackupOfTarget(i)
        /\ Len(Suffix(i)) = 14
        /\ AllDigits(Suffix(i))

(* C26, amended.  The backup path is a sibling of the target named          *)
(* <original-name>.bak.<timestamp>, and the timestamp is 15 characters      *)
(* long: the 8 digits of the date, a hyphen, and the 6 digits of the time   *)
(* of day to the second.                                                    *)
BackupSuffixFormat ==
    \A i \in BackupLines :
        /\ IsBackupOfTarget(i)
        /\ Len(Suffix(i)) = 15
        /\ AllDigits(SubSeq(Suffix(i), 1, 8))
        /\ SubSeq(Suffix(i), 9, 9) = "-"
        /\ AllDigits(SubSeq(Suffix(i), 10, 15))

\* A file has been renamed to its backup path, which the BACKUP line names.
BackupSuffixFormatWitness ==
    /\ mode = "backup" /\ ~dry /\ Finished
    /\ \E i \in BackupLines :
           /\ out[i].tag = "BACKUP"
           /\ PlainFile(fs, out[i].path)
           /\ out[i].path = Home \o <<"d.bak.20250101-000001">>

----------------------------------------------------------------------------
(* Properties of remove_target *)

\* fs is fs0 with the node at `from` moved to `to`.
Moved(from, to) ==
    /\ from \notin DOMAIN fs
    /\ to \in DOMAIN fs /\ fs[to] = fs0[from]
    /\ \A p \in (DOMAIN fs0 \cup DOMAIN fs) \ {from, to} :
           p \in DOMAIN fs0 /\ p \in DOMAIN fs /\ fs[p] = fs0[p]

(* C27.  remove_target(target, policy, dry_run): changes nothing and        *)
(* returns no path when the target neither exists nor is a symlink; ends    *)
(* with the fatal status 2 and changes nothing when the target is a real    *)
(* directory, whatever the policy and dry_run; changes nothing and returns  *)
(* no path under safe; under backup returns the backup path and, outside a  *)
(* dry run, has moved the target there and changed nothing else; under      *)
(* force returns no path and, outside a dry run, has removed the target     *)
(* and nothing else.  A symlink to a directory is moved or removed as a     *)
(* link: the directory it points to is as it was.  The one line it echoes   *)
(* is the DRYRUN line of the move or the removal a dry run leaves out.      *)
RemoveTargetContract ==
    pc = "returned" =>
        LET target == Target(items[1])
            there == Exists(fs0, target) \/ IsSymlink(fs0, target)
            phys == Lstat(fs0, target).phys
            bak == Append(Parent(phys), Name(target) \o ".bak." \o Stamp(clock))
        IN /\ ~there => (last.why = "none" /\ fs = fs0 /\ backup = None)
           /\ (there /\ RealDir(fs0, target)) =>
                  (last.why = "exit2" /\ last.code = 2 /\ fs = fs0)
           /\ (there /\ ~RealDir(fs0, target)) =>
                  /\ mode = "safe" => (last.why = "none" /\ fs = fs0 /\ backup = None)
                  /\ mode = "backup" =>
                         /\ last.why = "mv"
                         /\ backup = Append(Parent(target), Name(bak))
                         /\ IF dry THEN fs = fs0 ELSE Moved(phys, bak)
                  /\ mode = "force" =>
                         /\ last.why = "rm"
                         /\ backup = None
                         /\ fs = IF dry THEN fs0 ELSE Without(fs0, phys)
           /\ IsSymlink(fs0, target) =>
                  /\ last.why # "exit2"
                  /\ \A p \in DOMAIN fs0 : fs0[p].k = "dir" => (p \in DOMAIN fs /\ fs[p] = Dir)
           /\ out = IF dry /\ last.why \in {"mv", "rm"}
                    THEN <<Line("DRYRUN", items[1], last.why, backup)>>
                    ELSE <<>>

\* Under backup a symlink that points to a directory has been renamed.
RemoveTargetContractWitness ==
    /\ pc = "returned" /\ mode = "backup" /\ ~dry
    /\ items = <<KeyD>>
    /\ fs0[Target(KeyD)] = Link(Other)
    /\ Target(KeyD) \notin DOMAIN fs
    /\ backup \in DOMAIN fs /\ fs[backup] = Link(Other)

----------------------------------------------------------------------------
(* Properties of a run and the run before it *)

\* A real run that directly follows a dry run of the same batch and policy.
RealAfterDry == runs >= 2 /\ InRun /\ ~dry /\ prev.dry /\ prev.direct

\* The lines that close an entry, with what a dry run's line stands for.
Closing(lines) ==
    SelectSeq(lines, LAMBDA l : l.tag \in Outcomes \/ (l.tag = "DRYRUN" /\ l.what = ""))

Announced(l) == IF l.tag = "DRYRUN" THEN [l EXCEPT !.tag = "LINKED"] ELSE l

Says(lines, tag, key, what) ==
    \E i \in 1..Len(lines) :
        lines[i].tag = tag /\ lines[i].key = key /\ lines[i].what = what

(* C22.  Dry-run fidelity: in a real run started from the state a dry run   *)
(* of the same batch and policy was started from, every entry is            *)
(* classified as the dry run classified it and closed with the line the     *)
(* dry run announced (ERROR and SKIP as they were, LINKED for DRYRUN), an    *)
(* entry has a BACKUP line exactly if the dry run announced "mv" for it,    *)
(* and the real run does not end in an error the dry run did not show.      *)
DryRunFidelity ==
    RealAfterDry =>
        /\ pc \notin {"raised", "exit2"}
        /\ Len(hist) <= Len(past.hist)
        /\ \A i \in 1..Len(hist) :
               /\ hist[i].key = past.hist[i].key
               /\ hist[i].st = past.hist[i].st
        /\ LET real == Closing(out)
               announced == Closing(past.out)
           IN /\ Len(real) <= Len(announced)
              /\ \A i \in 1..Len(real) : real[i] = Announced(announced[i])
        /\ \A i \in 1..Len(hist) :
               (i < Len(hist) \/ Finished) =>
                   (Says(out, "BACKUP", hist[i].key, "")
                        <=> Says(past.out, "DRYRUN", hist[i].key, "mv"))

\* The first run was interrupted and the second one has run to its end.
RerunCompleted ==
    /\ pc = "idle" /\ runs = 2
    /\ past.exit = Killed
    /\ prev.exit \in {0, 2}

(* C21.  Safe re-run after interruption: when a real run was interrupted    *)
(* between two of its steps and the same batch was then run again under     *)
(* the same policy to its end, every entry that a run without interruption  *)
(* from the same initial state leaves linked is linked.                     *)
RerunReachesSameLinks ==
    RerunCompleted =>
        \A t \in 1..MaxClock : \A i \in 1..Len(items) :
            status_of(uninterrupted(past.fs, items, mode, t), items[i]) = "linked"
                => status_of(fs, items[i]) = "linked"

----------------------------------------------------------------------------
\* The place of a key in the batch.
Place(key) == CHOOSE i \in 1..Len(items) : items[i] = key

\* What holds of every state of a run: the entries classified so far are the
\* first entries of the batch in its order, the lines echoed so far follow
\* that order, and when the next entry is to be classified every entry
\* before it has its outcome line.
SequentialState ==
    (runs >= 1 /\ pc # "off") =>
        /\ Len(hist) <= Len(items)
        /\ \A i \in 1..Len(hist) : hist[i].key = items[i]
        /\ pc \in {"classify", "end"} => Len(hist) = idx - 1
        /\ pc \in {"remove", "mkdir", "symlink", "raised", "exit2"} => Len(hist) = idx
        /\ \A i \in 1..Len(out) : Place(out[i].key) <= Len(hist)
        /\ \A i, j \in 1..Len(out) : i < j => Place(out[i].key) <= Place(out[j].key)
        /\ pc \in {"classify", "end"} =>
               /\ Len(Closing(out)) = Len(hist)
               /\ \A i \in 1..Len(hist) : Closing(out)[i].key = items[i]

\* What holds of every step of a run: the filesystem changes and a line is
\* echoed only for the entry at hand, which has been classified when the
\* filesystem changes, and the next step is about the same entry or the
\* one after it.
SequentialStep ==
    (pc \notin {"idle", "off"} /\ pc' # "idle") =>
        /\ idx' \in {idx, idx + 1}
        /\ hist' = hist \/ (pc = "classify" /\ Len(hist') = idx /\ hist'[idx].pre = fs)
        /\ fs' # fs => (pc \in {"remove", "mkdir", "symlink"} /\ Len(hist) = idx)
        /\ Len(out') >= Len(out)
        /\ \A i \in 1..Len(out') :
               IF i <= Len(out) THEN out'[i] = out[i] ELSE out'[i].key = items[idx]

\* The labels of the lines verify printed, and of the checks as declared.
Reported == [i \in 1..Len(report.lines) |-> report.lines[i].label]
DeclaredLabels ==
    [i \in 1..Len(Get(data, "checks").l) |-> Get(Get(data, "checks").l[i], "label").v]
DeclaredAt(label) == CHOOSE i \in 1..Len(DeclaredLabels) : DeclaredLabels[i] = label

\* Case-insensitive label order: no line comes after a line of a label that
\* is greater when both are case-folded; labels that are equal then are in
\* the order of their declaration.
CaseInsensitiveOrder ==
    vpc = "verified" =>
        /\ Len(Reported) = Len(DeclaredLabels)
        /\ \A i \in 1..Len(DeclaredLabels) :
               \E j \in 1..Len(Reported) : Reported[j] = DeclaredLabels[i]
        /\ \A i, j \in 1..Len(Reported) :
               i < j =>
                   /\ ~StrLess(casefold(Reported[j]), casefold(Reported[i]))
                   /\ casefold(Reported[j]) = casefold(Reported[i])
                          => DeclaredAt(Reported[i]) < DeclaredAt(Reported[j])

(* C23.  Processing order: link_items handles the entries one after the     *)
(* other in the order of the batch, every change of the filesystem and the  *)
(* outcome line of an entry coming before the next entry is classified;     *)
(* verify reports the dependency checks in the order of their case-folded   *)
(* labels whatever the order of their declaration.                          *)
ProcessingOrder ==
    /\ [](SequentialState /\ CaseInsensitiveOrder)
    /\ [][SequentialStep]_vars

\* A real run has ended in which the first entry of a batch of two changed
\* the filesystem and the second one was classified after the change.
ProcessingOrderWitness ==
    /\ pc = "idle" /\ runs >= 1 /\ Direct /\ ~dry
    /\ Len(items) = 2 /\ Len(hist) = 2
    /\ hist[1].pre = fs0
    /\ hist[2].pre # fs0
    /\ Len(Closing(out)) = 2

----------------------------------------------------------------------------
\* The checks as declared, and the same checks without their depends lists.
DeclaredChecks == Get(data, "checks").l
WithoutDepends(check) == JObj(SelectSeq(check.l, LAMBDA m : m.v # "depends"))
Independent ==
    DepsDoc([i \in 1..Len(DeclaredChecks) |-> WithoutDepends(DeclaredChecks[i])])

\* The labels of the checks that declare `label` as a dependency, sorted.
Declaring(label) ==
    SortSeq(SelectSeq(DeclaredLabels,
                      LAMBDA x : \E i \in 1..Len(DeclaredChecks) :
                          /\ Get(DeclaredChecks[i], "label").v = x
                          /\ Has(DeclaredChecks[i], "depends")
                          /\ \E j \in 1..Len(Get(DeclaredChecks[i], "depends").l) :
                                 Get(DeclaredChecks[i], "depends").l[j].v = label),
            StrLess)

\* The verdicts of a report: the status of every check in the order of the
\* lines, and the two counters.
Verdicts(r) ==
    [lines |-> [i \in 1..Len(r.lines) |-> <<r.lines[i].label, r.lines[i].tag>>],
     ok |-> r.ok, fail |-> r.fail]

StartsWith(s, prefix) == Len(s) >= Len(prefix) /\ SubSeq(s, 1, Len(prefix)) = prefix

HasSubstring(s, sub) ==
    \E i \in 1..(Len(s) - Len(sub) + 1) : SubSeq(s, i, i + Len(sub) - 1) = sub

\* The text of a line before its hint.
LineHead(l) ==
    LET c == load_dep_checks(data)[DeclaredAt(l.label)]
    IN l.label \o " - " \o Get(c, "kind").v \o ": " \o Get(c, "target").v

(* C25.  The required-by index: a MISSING line names, sorted, the labels of *)
(* the checks that declare its label as a dependency, and only a MISSING    *)
(* line carries a hint; the verdict of every check and the ok and fail      *)
(* counts are those of the same checks without any depends list.            *)
RequiredByOnlyAnnotates ==
    vpc = "verified" =>
        /\ \A i \in 1..Len(report.lines) :
               LET l == report.lines[i]
                   by == Declaring(l.label)
               IN /\ l.tag = "OK" => l.text = LineHead(l)
                  /\ (l.tag = "MISSING" /\ by # <<>>) =>
                         StartsWith(l.text, LineHead(l) \o " (required by: "
                                               \o Join(by, ", "))
                  /\ (l.tag = "MISSING" /\ by = <<>>) =>
                         ~HasSubstring(l.text, "required by")
        /\ Verdicts(report) = Verdicts(verify_deps(load_dep_checks(Independent), env))

\* The check a is missing and the two checks that depend on it, declared b
\* before B, are installed.
RequiredByOnlyAnnotatesWitness ==
    /\ vpc = "verified"
    /\ \E i \in 1..Len(report.lines) :
           /\ report.lines[i].tag = "MISSING"
           /\ report.lines[i].text = "a - command: a (required by: B, b)"
    /\ \E i, j \in 1..Len(report.lines) :
           /\ report.lines[i].tag = "OK" /\ report.lines[i].label = "b"
           /\ report.lines[j].tag = "OK" /\ report.lines[j].label = "B"
    /\ DeclaredAt("b") < DeclaredAt("B")

----------------------------------------------------------------------------
\* The statements of the validator in the order of the code: the root, the
\* required and the unexpected keys, the array, the elements, the unknown
\* labels, the cycle.
Phase(e) ==
    CASE e.id = "root" -> 0
      [] e.id = "missing-key" -> 1
      [] e.id = "unexpected-key" -> 2
      [] e.id = "not-array" -> 3
      [] e.id = "unknown-label" -> 5
      [] e.id = "cycle" -> 6
      [] OTHER -> 4

\* The element an error names: the digit behind "<array_key>[", from 1.
Digit(c) == CHOOSE n \in 0..9 : ToString(n) = c
ElementOf(e) ==
    IF Phase(e) \in {4, 5}
    THEN 1 + Digit(SubSeq(e.text, Len(schema.array_key) + 2, Len(schema.array_key) + 2))
    ELSE 0

\* The statements that report on one element, in the order of the code.
Step(e) ==
    CASE e.id = "missing-field" -> 1
      [] e.id = "unexpected-field" -> 2
      [] e.id \in {"not-string", "not-in-enum"} -> 3
      [] e.id = "dep-not-string" -> 4
      [] OTHER -> 0

EndsWith(s, suffix) ==
    Len(s) >= Len(suffix) /\ SubSeq(s, Len(s) - Len(suffix) + 1, Len(s)) = suffix

Range(q) == {q[j] : j \in 1..Len(q)}

\* The first place in q of a member of S (0 when there is none).
FirstOf(q, S) ==
    IF \E j \in 1..Len(q) : q[j] \in S
    THEN CHOOSE j \in 1..Len(q) : q[j] \in S /\ \A k \in 1..(j - 1) : q[k] \notin S
    ELSE 0

PropertyNames == [j \in 1..Len(schema.items.properties) |-> schema.items.properties[j].name]

\* The place of what an error names in the list its loop runs over: the
\* required keys or fields and the properties of the schema, the keys of the
\* document or of the element, the depends list of the element.
Rank(e) ==
    LET where == schema.array_key \o "[" \o ToString(ElementOf(e) - 1) \o "]"
    IN CASE e.id = "missing-key" ->
                FirstOf(schema.required, {k \in Range(schema.required) :
                            e.text = "missing required key: " \o k})
         [] e.id = "unexpected-key" ->
                FirstOf(KeysOf(data), {k \in Range(KeysOf(data)) :
                            e.text = "unexpected key: " \o k})
         [] e.id = "missing-field" ->
                FirstOf(schema.items.required, {f \in Range(schema.items.required) :
                            e.text = where \o ": missing required field: " \o f})
         [] e.id = "unexpected-field" ->
                FirstOf(KeysOf(Elements[ElementOf(e)]),
                        {k \in Range(KeysOf(Elements[ElementOf(e)])) :
                            e.text = where \o ": unexpected field: " \o k})
         [] e.id \in {"not-string", "not-in-enum"} ->
                FirstOf(PropertyNames, {f \in Range(PropertyNames) :
                            StartsWith(e.text, where \o "." \o f \o ": ")})
         [] e.id = "unknown-label" ->
                FirstOf(depends_of(Elements[ElementOf(e)]),
                        {d \in Range(depends_of(Elements[ElementOf(e)])) :
                            e.text = where \o ".depends: unknown label '" \o PyStr(d) \o "'"})
         [] OTHER -> 0

\* Where the code appends an error: the statement, the element, the
\* statement within the element, the place in its loop, the type before
\* the enumerated domain.
Station(e) ==
    <<Phase(e), ElementOf(e), Step(e), Rank(e), IF e.id = "not-in-enum" THEN 1 ELSE 0>>

RECURSIVE LexLeq(_, _)
LexLeq(a, b) ==
    IF a = <<>> THEN TRUE
    ELSE IF Head(a) # Head(b) THEN Head(a) < Head(b)
    ELSE LexLeq(Tail(a), Tail(b))

\* The errors follow the order of the statements and of their loops.
InCodeOrder(errors) ==
    \A i, j \in 1..Len(errors) :
        i < j => LexLeq(Station(errors[i]), Station(errors[j]))

\* The label an unknown-label error names.
Quoted(e) ==
    LET open == CHOOSE k \in 1..Len(e.text) :
                    SubSeq(e.text, k, k) = "'" /\ \A m \in 1..(k - 1) : SubSeq(e.text, m, m) # "'"
    IN SubSeq(e.text, open + 1, Len(e.text) - 1)

\* The cycle error lists labels from the least to the greatest.
CycleMembersSorted ==
    \A i \in 1..Len(report.errors) :
        report.errors[i].id = "cycle" =>
            \E S \in SUBSET Names : report.errors[i].text = CyclePrefix \o Join(InOrder(S), ", ")

\* The claim as it is worded: the errors of the graph, the unknown-label
\* errors among them, are sorted by the label they name.
GraphErrorsSortedByLabel ==
    (DepsValidated /\ WellTyped) =>
        /\ CycleMembersSorted
        /\ \A i, j \in 1..Len(report.errors) :
               (i < j /\ report.errors[i].id = "unknown-label"
                      /\ report.errors[j].id = "unknown-label") =>
                   ~StrLess(Quoted(report.errors[j]), Quoted(report.errors[i]))

(* C24.  The order of the list a validator returns is fixed by its input:   *)
(* the errors of the root, then those of the elements, element by element   *)
(* and within an element the required fields in the order of the schema,    *)
(* the unexpected fields in the order of the element, the properties in the *)
(* order of the schema with the type before the enumerated domain, and the  *)
(* depends entries; then the unknown labels in the order of the checks and  *)
(* of their depends lists; then the cycle error, its members sorted by      *)
(* label.                                                                   *)
ErrorsInCodeOrder ==
    vpc = "done" =>
        /\ InCodeOrder(report.errors)
        /\ DepsValidated /\ WellTyped => CycleMembersSorted

\* A document with an undeclared key whose first check has a kind that is
\* no string and depends on itself and whose second check has an undeclared
\* field and names an unknown label: six errors of six statements.
ErrorsInCodeOrderWitness ==
    /\ vpc = "done"
    /\ [i \in 1..Len(report.errors) |-> report.errors[i].id]
           = <<"unexpected-key", "not-string", "not-in-enum", "unexpected-field",
               "unknown-label", "cycle">>
    /\ ElementOf(report.errors[2]) = 1
    /\ ElementOf(report.errors[4]) = 2

----------------------------------------------------------------------------
\* The raw keys of the last link command, whether a raw key names an entry
\* of the registry, and the first place where the command names an entry.
Given == last.targets
Names_(raw, item) == strip(raw) = KeyOf(item)
IsKnown(raw) == \E k \in 1..Len(Registry) : Names_(raw, Registry[k])
FirstNamed(item) ==
    CHOOSE j \in 1..Len(Given) :
        Names_(Given[j], item) /\ \A k \in 1..(j - 1) : ~Names_(Given[k], item)

\* link_items has been called.
Called == runs = 1

\* The batch handed to link_items: the registry under --all, and else the
\* entries named, once each, in the order in which they are first named.
BatchAsGiven ==
    Called =>
        IF last.all THEN items = Registry
        ELSE /\ \A i, k \in 1..Len(items) : items[i] = items[k] => i = k
             /\ \A i \in 1..Len(items) : \E j \in 1..Len(Given) : Names_(Given[j], items[i])
             /\ \A j \in 1..Len(Given) : \E i \in 1..Len(items) : Names_(Given[j], items[i])
             /\ \A i, k \in 1..Len(items) :
                    i < k => FirstNamed(items[i]) < FirstNamed(items[k])

\* The command has ended with a bad-parameter error that names every
\* unknown key as it was given; nothing was asked, echoed or changed.
Rejected ==
    /\ ~Called /\ pc = "idle"
    /\ last.code = 2
    /\ last.why = "Unknown target(s): "
                      \o Join(SelectSeq(Given, LAMBDA raw : ~IsKnown(raw)), ", ")
                      \o ". Use 'list' to see options."
    /\ ~gate.asked
    /\ fs = fs0 /\ muts = 0 /\ out = <<>>

\* The claim as it is worded: any unknown key among the given ones ends the
\* command before anything is changed.
UnknownKeyAlwaysRejected ==
    last.cmd = "link" =>
        /\ BatchAsGiven
        /\ (\E j \in 1..Len(Given) : ~IsKnown(Given[j])) => Rejected

(* C30.  resolve_items returns the registry in its order under --all, the  *)
(* given keys being ignored, and otherwise the entries named, stripped of   *)
(* blanks, once each in the order in which they are first named; without    *)
(* --all a key the registry does not have ends the link command with a      *)
(* bad-parameter error that names every unknown key, before the             *)
(* confirmation and before link_items: the filesystem is unchanged.         *)
UnknownKeyRejectedUnlessAll ==
    last.cmd = "link" =>
        /\ BatchAsGiven
        /\ (~last.all /\ \E j \in 1..Len(Given) : ~IsKnown(Given[j])) => Rejected

\* The command named an entry whose target is not linked and a key the
\* registry does not have, under a policy that needs no confirmation.
UnknownKeyRejectedUnlessAllWitness ==
    /\ last.cmd = "link" /\ ~last.all
    /\ Len(Given) = 2
    /\ IsKnown(Given[1]) /\ ~IsKnown(Given[2])
    /\ mode = "safe"
    /\ status_of(fs, lookup(strip(Given[1]))) = "absent"
    /\ last.code = 2

====
